---- MODULE Spec2Model ----
(***************************************************************************)
(* A model of the Motivational Content Automator's request path: the       *)
(* serverless dispatch handler of api/gemini/index.ts (per-IP token        *)
(* bucket, payload validation, action dispatch, response normalisation)    *)
(* and the browser-side transport clients that call it.                    *)
(*                                                                         *)
(* Time is counted in ticks of 1/TicksPerSec second and tokens in units of *)
(* 1/TicksPerSec token, so that "elapsed * RATE_LIMIT_REFILL_PER_SEC" of   *)
(* the code is a whole number of units.  JavaScript values are records     *)
(* tagged by their type; strings the code only measures are kept by their  *)
(* length, strings the code builds are sequences of their pieces.          *)
(***************************************************************************)
EXTENDS Integers, Sequences, FiniteSets, TLC

VARIABLES
    ai,            \* TRUE iff GENAI_API_KEY was set when the module loaded
    now,           \* Date.now(), in ticks
    rateLimitMap,  \* ip -> [tokens, lastRefill], the buckets seen so far
    inflight,      \* slot -> the handler invocation awaiting the remote model
    obs,           \* the handler invocation that ran last, and what it sent
    burst,         \* bookkeeping: the burst-then-wait scenario, or the cost admitted per tick
    client,        \* the outcome of the transport client's last call
    board,         \* the React state of the StoryBoardGenerator component
    tasks,         \* the storyboard's asynchronous calls that have not settled
    panel          \* the React state of App, ContentGenerator and ImageEditor

vars == <<ai, now, rateLimitMap, inflight, obs, burst, client, board, tasks, panel>>

\* the server's side and the browser's side
server == <<ai, now, rateLimitMap, inflight, obs, burst, client>>
browser == <<board, tasks, panel>>

----------------------------------------------------------------------------
(* Bounds of the model *)

TicksPerSec == 2
MaxTime == 4

(* Program constants *)

RATE_LIMIT_CAPACITY == 60
RATE_LIMIT_REFILL_PER_SEC == 1
MaxQuoteLen == 500
MaxTextLen == 1000
MaxVisualsLen == 2000
MinScenes == 1
MaxScenes == 12

Min(a, b) == IF a < b THEN a ELSE b
Max(a, b) == IF a > b THEN a ELSE b

RECURSIVE SumTo(_, _, _)
SumTo(f, from, to) == IF from > to THEN 0 ELSE f[to] + SumTo(f, from, to - 1)

----------------------------------------------------------------------------
(* JavaScript values *)

Undef == [t |-> "undefined"]
Str(lit, len) == [t |-> "string", lit |-> lit, len |-> len]
Num(v) == [t |-> "number", v |-> v]

\* ToBoolean: the `!x` and `x &&` tests of the validators
Truthy(v) ==
    CASE v.t = "undefined" -> FALSE
      [] v.t = "string" -> v.len > 0
      [] v.t = "number" -> v.v # 0
      [] OTHER -> TRUE

IsString(v) == v.t = "string"
IsNumber(v) == v.t = "number"
\* b64.startsWith('data:'): data URIs are the strings whose literal is "data:"
StartsWithData(v) == IsString(v) /\ v.lit = "data:"

NoPayload == [t |-> "undefined"]
EmptyPayload ==
    [t |-> "object", type |-> Undef, quote |-> Undef, base64Image |-> Undef,
     prompt |-> Undef, imageBase64 |-> Undef, topic |-> Undef,
     numScenes |-> Undef, visualsPrompt |-> Undef]

\* payload.<field>; a property read of a primitive payload yields undefined
Field(payload, f) == IF payload.t = "object" THEN payload[f] ELSE Undef

----------------------------------------------------------------------------
(* The rate limiter *)

costMap ==
    [a \in {"generateContent", "generateImageWithQuote", "editImage",
            "generateVideoPrompts", "generateStoryElements",
            "generateImageForScene", "getAutomationStrategies"} |->
        CASE a = "generateContent" -> 1
          [] a = "generateImageWithQuote" -> 6
          [] a = "editImage" -> 6
          [] a = "generateVideoPrompts" -> 4
          [] a = "generateStoryElements" -> 3
          [] a = "generateImageForScene" -> 5
          [] a = "getAutomationStrategies" -> 1]

\* names every object literal inherits from Object.prototype
ObjectPrototypeKeys == {"constructor", "toString", "valueOf"}

\* costMap[action] || 1.  An inherited key yields a function, which is truthy
\* and compares as NaN.
CostOf(action) ==
    IF action \in DOMAIN costMap THEN [isNum |-> TRUE, v |-> costMap[action]]
    ELSE IF action \in ObjectPrototypeKeys THEN [isNum |-> FALSE, v |-> 0]
    ELSE [isNum |-> TRUE, v |-> 1]

Capacity == RATE_LIMIT_CAPACITY * TicksPerSec

\* req.headers['x-forwarded-for'] is a sequence of comma-separated entries
\* (<<>> when the header is absent); split(',')[0].trim() is the first one.
getIp(req) ==
    IF req.forwarded # <<>> THEN Head(req.forwarded)
    ELSE IF req.socketAddr # "" THEN req.socketAddr
    ELSE IF req.connAddr # "" THEN req.connAddr
    ELSE "unknown"

\* a faulty variant: one bucket shared by every caller
MapSetShared(map, ip, bucket) == [x \in DOMAIN map \cup {ip} |-> bucket]

\* rateLimitMap.set(ip, bucket)
MapSet(map, ip, bucket) ==
    [x \in DOMAIN map \cup {ip} |-> IF x = ip THEN bucket ELSE map[x]]

\* bucket.tokens after the refill of lines 38-41
Refilled(map, t, ip) ==
    LET bucket == IF ip \in DOMAIN map THEN map[ip]
                  ELSE [tokens |-> Capacity, lastRefill |-> t]
        elapsed == Max(0, t - bucket.lastRefill)
        refill == elapsed * RATE_LIMIT_REFILL_PER_SEC
    IN  Min(Capacity, bucket.tokens + refill)

\* a faulty variant: a request needs more tokens than it costs
AffordableStrict(tokens, cost) == cost.isNum /\ tokens > cost.v * TicksPerSec

\* bucket.tokens >= cost, a comparison that is false of NaN
Affordable(tokens, cost) == cost.isNum /\ tokens >= cost.v * TicksPerSec

\* a faulty variant: an admitted request's cost is not taken from the bucket
allowRequestNoDebit(map, t, ip, cost) ==
    LET tokens == Refilled(map, t, ip)
    IN  [ok |-> Affordable(tokens, cost),
         map |-> MapSet(map, ip, [tokens |-> tokens, lastRefill |-> t])]

allowRequest(map, t, ip, cost) ==
    LET tokens == Refilled(map, t, ip)
    IN  IF Affordable(tokens, cost)
        THEN [ok |-> TRUE,
              map |-> MapSet(map, ip, [tokens |-> tokens - cost.v * TicksPerSec,
                                       lastRefill |-> t])]
        ELSE [ok |-> FALSE,
              map |-> MapSet(map, ip, [tokens |-> tokens, lastRefill |-> t])]

----------------------------------------------------------------------------
(* Payload validation: the error text, or "" for null *)

\* a faulty variant: the upper limit of the scene count is forgotten
InSceneRangeNoUpper(n) == n.v >= MinScenes

\* n < 1 || n > 12 of line 83, negated
InSceneRange(n) == n.v >= MinScenes /\ n.v <= MaxScenes

\* quote.length > 500 of line 64
QuoteTooLong(quote) == quote.len > MaxQuoteLen

validatePayload(action, payload) ==
    IF payload.t = "undefined" THEN ""
    ELSE CASE action = "generateContent" ->
                LET type == Field(payload, "type")
                IN  IF Truthy(type) /\ type # Str("quote", 5) /\ type # Str("tip", 3)
                    THEN "Invalid type for generateContent" ELSE ""
           [] action = "generateImageWithQuote" ->
                LET quote == Field(payload, "quote")
                IN  IF ~Truthy(quote) \/ ~IsString(quote)
                    THEN "Missing or invalid quote"
                    ELSE IF QuoteTooLong(quote)
                    THEN "Quote too long (max 500 chars)" ELSE ""
           [] action = "editImage" ->
                LET b64 == Field(payload, "base64Image")
                    p == Field(payload, "prompt")
                IN  IF ~Truthy(b64) \/ ~IsString(b64) \/ ~StartsWithData(b64)
                    THEN "Invalid base64Image"
                    ELSE IF ~Truthy(p) \/ ~IsString(p) \/ p.len > MaxTextLen
                    THEN "Invalid prompt" ELSE ""
           [] action = "generateVideoPrompts" ->
                LET q == Field(payload, "quote")
                IN  IF ~Truthy(q) \/ ~IsString(q) \/ q.len > MaxTextLen
                    THEN "Invalid quote for video prompts" ELSE ""
           [] action = "generateStoryElements" ->
                LET tp == Field(payload, "topic")
                    n == Field(payload, "numScenes")
                IN  IF ~Truthy(tp) \/ ~IsString(tp) \/ tp.len > MaxTextLen
                    THEN "Invalid topic"
                    ELSE IF ~Truthy(n) \/ ~IsNumber(n) \/ ~InSceneRange(n)
                    THEN "numScenes must be a number between 1 and 12" ELSE ""
           [] action = "generateImageForScene" ->
                LET v == Field(payload, "visualsPrompt")
                IN  IF ~Truthy(v) \/ ~IsString(v) \/ v.len > MaxVisualsLen
                    THEN "Invalid visualsPrompt" ELSE ""
           [] OTHER -> ""

----------------------------------------------------------------------------
(* Strings the code builds, JSON texts and the remote model's replies *)

\* a template literal or string literal, as the sequence of its pieces
Text(pieces) == [t |-> "string", chars |-> pieces]
TextTruthy(s) == s.t = "string" /\ \E i \in DOMAIN s.chars : s.chars[i] # ""

IsSpace(c) == c = " "

RECURSIVE TrimLeft(_)
TrimLeft(cs) ==
    IF cs # <<>> /\ IsSpace(Head(cs)) THEN TrimLeft(Tail(cs)) ELSE cs

RECURSIVE TrimRight(_)
TrimRight(cs) ==
    IF cs # <<>> /\ IsSpace(cs[Len(cs)]) THEN TrimRight(SubSeq(cs, 1, Len(cs) - 1))
    ELSE cs

\* String.prototype.trim
Trim(s) == Text(TrimRight(TrimLeft(s.chars)))

Scene(i) ==
    [description |-> "description", visuals |-> "visuals",
     dialogue |-> "dialogue", sound |-> "sound"]
Scenes(k) == [i \in 1..k |-> Scene(i)]
Array(items) == [t |-> "array", items |-> items]

\* The JSON documents the remote model may answer with; a document is one
\* token of a text, standing for the serialisation of its value.
JsonDocs ==
    [d \in {"story1", "story2", "storyNoScenes", "prompts3",
            "prompts2", "strategies4", "null"} |->
        CASE d = "story1" ->
                [t |-> "object",
                 obj |-> [thumbnailPrompt |-> Text(<<"poster">>), scenes |-> Array(Scenes(1))]]
          [] d = "story2" ->
                [t |-> "object",
                 obj |-> [thumbnailPrompt |-> Text(<<"poster">>), scenes |-> Array(Scenes(2))]]
          [] d = "storyNoScenes" ->
                [t |-> "object", obj |-> [thumbnailPrompt |-> Text(<<"poster">>)]]
          [] d = "prompts3" ->
                Array([i \in 1..3 |-> "videoPrompt"])
          [] d = "prompts2" ->
                Array([i \in 1..2 |-> "videoPrompt"])
          [] d = "strategies4" ->
                Array([i \in 1..4 |-> "strategy"])
          [] d = "null" -> [t |-> "null"]]

\* JSON.parse: a text that is exactly one document parses to its value,
\* anything else (the empty text, prose) is a SyntaxError.
JsonParse(s) ==
    IF Len(s.chars) = 1 /\ s.chars[1] \in DOMAIN JsonDocs
    THEN [ok |-> TRUE, value |-> JsonDocs[s.chars[1]]]
    ELSE [ok |-> FALSE, value |-> [t |-> "null"]]

\* { ...result }: the own enumerable properties of the parsed value
Spread(v) ==
    CASE v.t = "object" -> v.obj
      [] v.t = "array" -> [k \in {ToString(i - 1) : i \in DOMAIN v.items} |->
                              Text(<<"element">>)]
      [] OTHER -> [k \in {} |-> Undef]

\* a part of candidates[0].content.parts; NoValue stands for undefined
NoValue == "<undefined>"
TextPart == [inline |-> FALSE, mimeType |-> NoValue, data |-> NoValue]
InlinePart(mimeType, data) == [inline |-> TRUE, mimeType |-> mimeType, data |-> data]

\* x || fallback, for a string or undefined x
OrElse(x, fallback) == IF x = NoValue \/ x = "" THEN fallback ELSE x
\* ${x}
Interp(x) == IF x = NoValue THEN "undefined" ELSE x

DataUri(mimeType, data) == Text(<<"data:", Interp(mimeType), ";base64,", Interp(data)>>)

Resolved(text, parts) == [throws |-> FALSE, message |-> "", text |-> text, parts |-> parts]
Rejected(message) == [throws |-> TRUE, message |-> message, text |-> Undef, parts |-> <<>>]

TextReplies ==
    {Resolved(Text(cs), <<TextPart>>) :
        cs \in {<<>>, <<"Save", " ", "early">>,
                <<" ", "\"", "Save", "\"", " ">>, <<"prose">>}}
    \cup {Resolved(Text(<<d>>), <<TextPart>>) : d \in DOMAIN JsonDocs}
    \cup {Resolved(Text(<<" ", "story2", " ">>), <<TextPart>>)}
    \cup {Resolved(Undef, <<>>)}

ImageReplies ==
    {Resolved(Undef, ps) :
        ps \in {<<>>, <<TextPart>>,
                <<TextPart, InlinePart("image/png", "AAAA")>>,
                <<InlinePart("image/jpeg", "BBBB"), InlinePart("image/png", "AAAA")>>,
                <<InlinePart(NoValue, NoValue)>>}}

Failures == {Rejected("quota exceeded"), Rejected("")}

\* what ai.models.generateContent may settle with
Replies == TextReplies \cup ImageReplies \cup Failures

\* response?.candidates?.[0]?.content?.parts || [], then the first part with
\* inlineData (0 when there is none)
FirstInline(parts) ==
    IF \E i \in DOMAIN parts : parts[i].inline
    THEN CHOOSE i \in DOMAIN parts :
            parts[i].inline /\ \A j \in 1..(i - 1) : ~parts[j].inline
    ELSE 0

----------------------------------------------------------------------------
(* The handler of api/gemini/index.ts *)

\* JSON.stringify(payload): a property whose value is undefined is left out
Stringify(payload) ==
    [k \in {x \in DOMAIN payload : payload[x] # Undef} |-> payload[k]]

jsonResponse(status, payload) == [status |-> status, body |-> Stringify(payload)]

ErrorPayload(pieces) == [error |-> Text(pieces)]

\* a faulty variant: the error is not caught and leaves the handler
CatchErrorRethrow(message) == [sent |-> <<>>, thrown |-> TRUE]

\* the catch clause of the handler: error?.message || String(error)
CatchError(message) ==
    [sent |-> <<jsonResponse(500, ErrorPayload(<<OrElse(message, "Error")>>))>>,
     thrown |-> FALSE]

NoCall == [model |-> "", stage |-> "", image |-> InlinePart(NoValue, NoValue)]
Call(model, stage, image) == [model |-> model, stage |-> stage, image |-> image]

Respond(status, payload) ==
    [sent |-> <<jsonResponse(status, payload)>>, thrown |-> FALSE, call |-> NoCall]
Await(call) == [sent |-> <<>>, thrown |-> FALSE, call |-> call]

\* a faulty variant: the default case answers as api/gemini.ts does, without
\* the action's name
UnknownActionUnnamed(action) == Respond(400, ErrorPayload(<<"Invalid action specified">>))

\* the default case of the switch
UnknownAction(action) == Respond(400, ErrorPayload(<<"Unknown action: ", action>>))

\* the switch of lines 126-291, up to the first await of each case
Dispatch(action, payload) ==
    CASE action = "generateContent" ->
            Await(Call("gemini-2.5-flash", "content", TextPart))
      [] action = "generateImageWithQuote" ->
            IF ~Truthy(Field(payload, "quote"))
            THEN Respond(400, ErrorPayload(<<"Missing quote in payload">>))
            ELSE Await(Call("gemini-2.5-flash-image", "base", TextPart))
      [] action = "editImage" ->
            IF ~Truthy(Field(payload, "base64Image")) \/ ~Truthy(Field(payload, "prompt"))
            THEN Respond(400, ErrorPayload(<<"Missing base64Image or prompt">>))
            ELSE Await(Call("gemini-2.5-flash-image", "edit",
                            InlinePart("payload", "payload")))
      [] action = "generateVideoPrompts" ->
            IF ~Truthy(Field(payload, "quote"))
            THEN Respond(400, ErrorPayload(<<"Missing quote">>))
            ELSE IF Truthy(Field(payload, "imageBase64"))
                    /\ ~IsString(Field(payload, "imageBase64"))
            \* imageBase64.substring of a non-string: a TypeError, caught
            THEN CatchError("imageBase64.substring is not a function") @@ [call |-> NoCall]
            ELSE Await(Call("gemini-2.5-pro", "video",
                            IF Truthy(Field(payload, "imageBase64"))
                            THEN InlinePart("payload", "payload") ELSE TextPart))
      [] action = "generateStoryElements" ->
            IF ~Truthy(Field(payload, "topic"))
            THEN Respond(400, ErrorPayload(<<"Missing topic">>))
            ELSE Await(Call("gemini-2.5-pro", "story", TextPart))
      [] action = "getAutomationStrategies" ->
            Await(Call("gemini-2.5-pro", "strategies", TextPart))
      [] OTHER -> UnknownAction(action)

\* a faulty variant: the configuration is looked at after the rate limit and
\* the validation
EntryConfiguredLast(map, t, configured, req) ==
    LET lim == allowRequest(map, t, getIp(req), CostOf(req.action))
        validationError == validatePayload(req.action, req.payload)
    IN  IF req.method # "POST"
        THEN [limiter |-> "skipped", map |-> map,
              out |-> Respond(405, ErrorPayload(<<"Method not allowed">>))]
        ELSE IF req.action = ""
        THEN [limiter |-> "skipped", map |-> map,
              out |-> Respond(400, ErrorPayload(<<"Missing action in request body">>))]
        ELSE IF ~lim.ok
        THEN [limiter |-> "denied", map |-> lim.map,
              out |-> Respond(429, ErrorPayload(<<"Rate limit exceeded. Try again later.">>))]
        ELSE IF validationError # ""
        THEN [limiter |-> "admitted", map |-> lim.map,
              out |-> Respond(400, ErrorPayload(<<validationError>>))]
        ELSE [limiter |-> "admitted", map |-> lim.map,
              out |-> Respond(500, ErrorPayload(
                        <<"Server misconfigured: GENAI_API_KEY is not set">>))]

\* the handler from its entry to its first await or its response
\* a faulty variant: the payload is validated before the limiter is asked
EntryValidateFirst(map, t, configured, req) ==
    LET lim == allowRequest(map, t, getIp(req), CostOf(req.action))
        validationError == validatePayload(req.action, req.payload)
    IN  IF req.method # "POST"
        THEN [limiter |-> "skipped", map |-> map,
              out |-> Respond(405, ErrorPayload(<<"Method not allowed">>))]
        ELSE IF req.action = ""
        THEN [limiter |-> "skipped", map |-> map,
              out |-> Respond(400, ErrorPayload(<<"Missing action in request body">>))]
        ELSE IF ~configured
        THEN [limiter |-> "skipped", map |-> map,
              out |-> Respond(500, ErrorPayload(
                        <<"Server misconfigured: GENAI_API_KEY is not set">>))]
        ELSE IF validationError # ""
        THEN [limiter |-> "skipped", map |-> map,
              out |-> Respond(400, ErrorPayload(<<validationError>>))]
        ELSE IF ~lim.ok
        THEN [limiter |-> "denied", map |-> lim.map,
              out |-> Respond(429, ErrorPayload(<<"Rate limit exceeded. Try again later.">>))]
        ELSE [limiter |-> "admitted", map |-> lim.map,
              out |-> Dispatch(req.action, req.payload)]

Entry(map, t, configured, req) ==
    LET lim == allowRequest(map, t, getIp(req), CostOf(req.action))
        validationError == validatePayload(req.action, req.payload)
    IN  IF req.method # "POST"
        THEN [limiter |-> "skipped", map |-> map,
              out |-> Respond(405, ErrorPayload(<<"Method not allowed">>))]
        ELSE IF req.action = ""
        THEN [limiter |-> "skipped", map |-> map,
              out |-> Respond(400, ErrorPayload(<<"Missing action in request body">>))]
        ELSE IF ~configured
        THEN [limiter |-> "skipped", map |-> map,
              out |-> Respond(500, ErrorPayload(
                        <<"Server misconfigured: GENAI_API_KEY is not set">>))]
        ELSE IF ~lim.ok
        THEN [limiter |-> "denied", map |-> lim.map,
              out |-> Respond(429, ErrorPayload(<<"Rate limit exceeded. Try again later.">>))]
        ELSE IF validationError # ""
        THEN [limiter |-> "admitted", map |-> lim.map,
              out |-> Respond(400, ErrorPayload(<<validationError>>))]
        ELSE [limiter |-> "admitted", map |-> lim.map,
              out |-> Dispatch(req.action, req.payload)]

\* response.text?.trim() || ''
JsonString(reply) ==
    IF reply.text = Undef THEN Text(<<>>)
    ELSE IF TextTruthy(Trim(reply.text)) THEN Trim(reply.text) ELSE Text(<<>>)

\* JSON.parse(jsonString) inside the try of the three JSON cases
Parsed(reply) == JsonParse(JsonString(reply))

\* and their catch
InvalidJson(reply) ==
    Respond(500, [error |-> Text(<<"Invalid JSON returned from model">>),
                  raw |-> JsonString(reply)])

PromptsPayload(v) == [prompts |-> v]
StrategiesPayload(v) == [strategies |-> v]

\* the loop over the parts of a reply: '' when no part has inlineData, else the
\* data URI of the first that has (with the defaults of lines 162-163 for the
\* base image)
InlineUri(parts, defaults) ==
    LET i == FirstInline(parts)
    IN  IF i = 0 THEN Text(<<>>)
        ELSE IF defaults
        THEN DataUri(OrElse(parts[i].mimeType, "image/png"), OrElse(parts[i].data, ""))
        ELSE DataUri(parts[i].mimeType, parts[i].data)

\* a faulty variant: the overlay call is made whatever the base call yielded,
\* with an empty image
BaseResultUnchecked(withoutOverlay, parts) ==
    Await(Call("gemini-2.5-flash-image", "overlay", InlinePart("image/png", "")))

\* lines 170-182: the base image is checked, then fed to the overlay call
BaseResult(withoutOverlay, parts) ==
    LET i == FirstInline(parts)
    IN  IF ~TextTruthy(withoutOverlay)
        THEN Respond(500, ErrorPayload(<<"Failed to generate base image">>))
        ELSE Await(Call("gemini-2.5-flash-image", "overlay",
                        InlinePart(OrElse(parts[i].mimeType, "image/png"),
                                   OrElse(parts[i].data, ""))))

\* a faulty variant: the overlay is not checked before the success response
OverlayResultUnchecked(withOverlay, withoutOverlay) ==
    Respond(200, [withOverlay |-> withOverlay, withoutOverlay |-> withoutOverlay])

\* lines 195-197
OverlayResult(withOverlay, withoutOverlay) ==
    IF ~TextTruthy(withOverlay)
    THEN Respond(500, ErrorPayload(<<"Failed to add overlay to image">>))
    ELSE Respond(200, [withOverlay |-> withOverlay, withoutOverlay |-> withoutOverlay])

\* the handler from an await of the remote model to its next await or its
\* response; f is the invocation, reply what the await settled with
Resume(f, reply) ==
    LET i == FirstInline(reply.parts)
    IN  IF reply.throws THEN CatchError(reply.message) @@ [call |-> NoCall]
        ELSE CASE f.stage = "content" ->
                    Respond(200, [text |-> reply.text])
               [] f.stage = "base" -> BaseResult(InlineUri(reply.parts, TRUE), reply.parts)
               [] f.stage = "overlay" ->
                    OverlayResult(InlineUri(reply.parts, FALSE),
                                  DataUri(f.call.image.mimeType, f.call.image.data))
               [] f.stage = "edit" ->
                    IF i = 0
                    THEN Respond(500, ErrorPayload(<<"No edited image returned">>))
                    ELSE Respond(200, [edited |-> DataUri(reply.parts[i].mimeType,
                                                          reply.parts[i].data)])
               [] f.stage = "video" ->
                    IF Parsed(reply).ok THEN Respond(200, PromptsPayload(Parsed(reply).value))
                    ELSE InvalidJson(reply)
               [] f.stage = "story" ->
                    IF Parsed(reply).ok THEN Respond(200, Spread(Parsed(reply).value))
                    ELSE InvalidJson(reply)
               [] f.stage = "strategies" ->
                    IF Parsed(reply).ok THEN Respond(200, StrategiesPayload(Parsed(reply).value))
                    ELSE InvalidJson(reply)

----------------------------------------------------------------------------
(* Requests *)

Req(method, action, payload) ==
    [method |-> method, action |-> action, payload |-> payload,
     forwarded |-> <<"a", "proxy">>, socketAddr |-> "b", connAddr |-> ""]

With(f, v) == [EmptyPayload EXCEPT ![f] = v]
With2(f, v, g, w) == [EmptyPayload EXCEPT ![f] = v, ![g] = w]

ContentPayloads ==
    {NoPayload, EmptyPayload, With("type", Str("quote", 5)), With("type", Str("tip", 3)),
     With("type", Str("joke", 4))}
QuotePayloads ==
    {NoPayload, With("quote", Str("text", 0)), With("quote", Str("text", MaxQuoteLen)),
     With("quote", Str("text", MaxQuoteLen + 1)), With("quote", Num(7))}
EditPayloads ==
    {NoPayload,
     With2("base64Image", Str("data:", 40), "prompt", Str("text", MaxTextLen)),
     With2("base64Image", Str("data:", 40), "prompt", Str("text", MaxTextLen + 1)),
     With2("base64Image", Str("http:", 40), "prompt", Str("text", 10))}
VideoPayloads ==
    {With("quote", Str("text", MaxTextLen)), With("quote", Str("text", MaxTextLen + 1)),
     With2("quote", Str("text", 20), "imageBase64", Str("data:", 40)),
     With2("quote", Str("text", 20), "imageBase64", Num(5))}
NumScenesValues ==
    {Undef, Num(0), Num(MinScenes), Num(2), Num(MaxScenes), Num(MaxScenes + 1),
     Num(MinScenes - 2), Str("3", 1)}
StoryPayloads ==
    {With2("topic", Str("text", MaxTextLen), "numScenes", n) : n \in NumScenesValues}
    \cup {With2("topic", Str("text", MaxTextLen + 1), "numScenes", Num(2)),
          With("numScenes", Num(2)), NoPayload}
ScenePayloads ==
    {With("visualsPrompt", Str("text", MaxVisualsLen)),
     With("visualsPrompt", Str("text", MaxVisualsLen + 1))}

Catalog ==
    {"generateContent", "generateImageWithQuote", "editImage", "generateVideoPrompts",
     "generateStoryElements", "generateImageForScene", "getAutomationStrategies",
     "saveToDrive"}

Requests ==
    {Req("GET", "generateContent", NoPayload), Req("POST", "", NoPayload)}
    \cup {Req("POST", "generateContent", p) : p \in ContentPayloads}
    \cup {Req("POST", "generateImageWithQuote", p) : p \in QuotePayloads}
    \cup {Req("POST", "editImage", p) : p \in EditPayloads}
    \cup {Req("POST", "generateVideoPrompts", p) : p \in VideoPayloads}
    \cup {Req("POST", "generateStoryElements", p) : p \in StoryPayloads}
    \cup {Req("POST", "generateImageForScene", p) : p \in ScenePayloads}
    \cup {Req("POST", a, EmptyPayload) :
            a \in {"getAutomationStrategies", "saveToDrive", "summarize", "constructor"}}

NoReq == Req("", "", NoPayload)

----------------------------------------------------------------------------
(* The browser's state when the page has loaded *)

\* imageUrl: undefined, or the data URI the server produced for the request
\* that card `key` issued (key 0 is the thumbnail); it is stale when the
\* request was issued for a card of an outline that has since been replaced
NoUrl == [t |-> "none", stale |-> FALSE, key |-> 0]
Url(stale, key) == [t |-> "url", stale |-> stale, key |-> key]

\* useState<ThumbnailData | null>(null)
NoThumbnail ==
    [present |-> FALSE, imageUrl |-> NoUrl, isGeneratingImage |-> FALSE]

NoError == <<>>

\* `outline` is the number of scenes of the outline being shown; it is not a
\* state of the component
NoBoard ==
    [topic |-> "", scenes |-> <<>>, thumbnail |-> NoThumbnail, isLoading |-> FALSE,
     isZipping |-> FALSE, isSavingToDrive |-> FALSE, error |-> NoError,
     googleAccessToken |-> FALSE, outline |-> 0, generationStatus |-> <<>>]

NoOutline == [phase |-> "idle", n |-> 0, i |-> 0]
NoPackage == [running |-> FALSE, thumbnail |-> NoThumbnail, scenes |-> <<>>]
NoEvent == [kind |-> "none", key |-> 0]

NoTasks ==
    [outline |-> NoOutline, images |-> {}, zip |-> NoPackage, drive |-> NoPackage,
     last |-> NoEvent, built |-> {}, builds |-> 0]

NoImages == [withOverlay |-> "", withoutOverlay |-> ""]

\* what a slot showed when a request was issued
NoShown == [quote |-> "", generatedImages |-> NoImages, editedImage |-> ""]

NoPanel ==
    [quote |-> "", generatedImages |-> NoImages, isLoadingContent |-> FALSE,
     isLoadingImage |-> FALSE, error |-> NoError, originalImage |-> "",
     editedImage |-> "", editorLoading |-> FALSE, editorError |-> NoError,
     pending |-> {}, last |-> NoEvent, was |-> NoShown, imagesFor |-> ""]

----------------------------------------------------------------------------
(* State and actions *)

MaxInFlight == 1
Slots == 1..MaxInFlight

Idle == [stage |-> "idle", req |-> NoReq, call |-> NoCall, calls |-> <<>>, replies |-> <<>>]

NoObs ==
    [req |-> NoReq, step |-> "none", limiter |-> "skipped", calls |-> <<>>,
     replies |-> <<>>, sent |-> <<>>, thrown |-> FALSE, done |-> FALSE]

NoBurst ==
    [phase |-> "off", t0 |-> 0, issued |-> 0, admitted |-> 0, tDenied |-> 0,
     left |-> 0, waited |-> 0, probes |-> 0]
NoClient ==
    [client |-> "none", action |-> "", res |-> [network |-> TRUE],
     outcome |-> [settled |-> "none"]]

EmptyMap == [x \in {} |-> [tokens |-> 0, lastRefill |-> 0]]

\* the state after the module is loaded
Init ==
    /\ ai \in BOOLEAN
    /\ now = 0
    /\ rateLimitMap = EmptyMap
    /\ inflight = [s \in Slots |-> Idle]
    /\ obs = NoObs
    /\ burst = NoBurst
    /\ client = NoClient
    /\ board = NoBoard
    /\ tasks = NoTasks
    /\ panel = NoPanel

\* Date.now() advances
Tick ==
    /\ now < MaxTime
    /\ now' = now + 1
    /\ UNCHANGED <<ai, rateLimitMap, inflight, obs, burst, client>>
    /\ UNCHANGED browser

\* calls and replies: the calls the invocation has made of the remote model
\* and what they settled with, in order
Flight(call, req, calls, replies) ==
    [stage |-> call.stage, req |-> req, call |-> call, calls |-> calls,
     replies |-> replies]

\* a request arrives and the handler runs to its first await or its response
Handle(req) ==
    \E e \in {Entry(rateLimitMap, now, ai, req)} :
        /\ rateLimitMap' = e.map
        /\ obs' = [req |-> req, step |-> "entry", limiter |-> e.limiter,
                   calls |-> IF e.out.call = NoCall THEN <<>> ELSE <<e.out.call>>,
                   replies |-> <<>>,
                   sent |-> e.out.sent, thrown |-> e.out.thrown,
                   done |-> e.out.call = NoCall]
        /\ IF e.out.call = NoCall
           THEN UNCHANGED inflight
           ELSE \E s \in Slots :
                    /\ inflight[s] = Idle
                    /\ \A r \in Slots : r < s => inflight[r] # Idle
                    /\ inflight' = [inflight EXCEPT ![s] =
                                        Flight(e.out.call, req, <<e.out.call>>, <<>>)]
        /\ UNCHANGED <<ai, now, client>>
        /\ UNCHANGED browser

HandlerEntry(req) == Handle(req) /\ UNCHANGED burst

\* the remote model settles the call an invocation awaits
UpstreamReply(s, reply) ==
    /\ inflight[s] # Idle
    /\ \E r \in {Resume(inflight[s], reply)} :
        \E calls \in {IF r.call = NoCall THEN inflight[s].calls
                      ELSE Append(inflight[s].calls, r.call)} :
            /\ obs' = [req |-> inflight[s].req, step |-> "reply", limiter |-> "admitted",
                       calls |-> calls,
                       replies |-> Append(inflight[s].replies, reply),
                       sent |-> r.sent, thrown |-> r.thrown,
                       done |-> r.call = NoCall]
            /\ inflight' = [inflight EXCEPT ![s] =
                    IF r.call = NoCall THEN Idle
                    ELSE Flight(r.call, inflight[s].req, calls,
                                Append(inflight[s].replies, reply))]
    /\ UNCHANGED <<ai, now, rateLimitMap, burst, client>>
    /\ UNCHANGED browser

\* no invocation awaits the remote model
Quiet == \A s \in Slots : inflight[s] = Idle

----------------------------------------------------------------------------
(* Spec: every request shape and every reply, one request at a time, within one
   clock tick.  It starts either unconfigured, or configured with the caller's
   bucket run down to WarmTokens (as after eight editImage requests and one
   generateImageForScene request in the first tick). *)

WarmTokens == 7

InitDispatch ==
    /\ \/ ai = FALSE /\ rateLimitMap = EmptyMap
       \/ ai = TRUE /\ rateLimitMap =
            MapSet(EmptyMap, "a", [tokens |-> WarmTokens * TicksPerSec, lastRefill |-> 0])
    /\ now = 0
    /\ inflight = [s \in Slots |-> Idle]
    /\ obs = NoObs
    /\ burst = NoBurst
    /\ client = NoClient
    /\ board = NoBoard
    /\ tasks = NoTasks
    /\ panel = NoPanel

Request == \E req \in Requests : Quiet /\ HandlerEntry(req)
Settle == \E s \in Slots, reply \in Replies : UpstreamReply(s, reply)

Next == Request \/ Settle

Spec == InitDispatch /\ [][Next]_vars

----------------------------------------------------------------------------
(* SpecLimiter: the token bucket over time.  One request of every cost (valid
   ones, and ones that fail validation or dispatch after the debit), from the
   state after loading, with the clock advancing up to MaxTime ticks. *)

LimiterRequests ==
    {Req("GET", "generateContent", NoPayload),
     Req("POST", "generateContent", With("type", Str("tip", 3))),
     Req("POST", "generateStoryElements",
         With2("topic", Str("text", MaxTextLen), "numScenes", Num(0))),
     Req("POST", "generateVideoPrompts", With("quote", Str("text", MaxTextLen + 1))),
     Req("POST", "generateImageForScene", With("visualsPrompt", Str("text", MaxVisualsLen))),
     Req("POST", "generateImageWithQuote", With("quote", Str("text", MaxQuoteLen))),
     Req("POST", "constructor", EmptyPayload)}

LimiterReplies ==
    {Rejected(""), Resolved(Undef, <<InlinePart("image/png", "AAAA")>>),
     Resolved(Text(<<"Save", " ", "early">>), <<TextPart>>)}

Arrive == \E req \in LimiterRequests : Quiet /\ HandlerEntry(req)
Answer == \E s \in Slots, reply \in LimiterReplies : UpstreamReply(s, reply)

NextLimiter == Tick \/ Arrive \/ Answer

SpecLimiter == Init /\ [][NextLimiter]_vars

----------------------------------------------------------------------------
(* SpecConcurrent: handler invocations of one caller that interleave.  An
   invocation runs from its entry to its first await (the remote model call)
   without interruption, so the limiter's read and write of lines 36-50 are
   one step; a request may enter while others await the remote model.  The
   caller's bucket is run down to WarmTokens as in Spec; burst keeps the cost
   admitted for the caller at every tick. *)

Caller == "a"

ConcurrentRequests ==
    {Req("POST", "generateContent", With("type", Str("tip", 3))),
     Req("POST", "generateImageForScene",
         With("visualsPrompt", Str("text", MaxVisualsLen + 1)))}

ConcurrentReplies ==
    {Rejected(""), Resolved(Text(<<"Save", " ", "early">>), <<TextPart>>)}

InitConcurrent ==
    /\ ai = TRUE
    /\ now = 0
    /\ rateLimitMap =
         MapSet(EmptyMap, Caller, [tokens |-> WarmTokens * TicksPerSec, lastRefill |-> 0])
    /\ inflight = [s \in Slots |-> Idle]
    /\ obs = NoObs
    /\ burst = [t \in 0..MaxTime |->
                    IF t = 0 THEN Capacity - WarmTokens * TicksPerSec ELSE 0]
    /\ client = NoClient
    /\ board = NoBoard
    /\ tasks = NoTasks
    /\ panel = NoPanel

\* a request enters while others may be awaiting the remote model
Overlap ==
    \E req \in ConcurrentRequests :
        /\ Handle(req)
        /\ burst' = IF obs'.limiter = "admitted"
                    THEN [burst EXCEPT ![now] = @ + CostOf(req.action).v * TicksPerSec]
                    ELSE burst

Returns == \E s \in Slots, reply \in ConcurrentReplies : UpstreamReply(s, reply)

NextConcurrent == Tick \/ Overlap \/ Returns

SpecConcurrent == InitConcurrent /\ [][NextConcurrent]_vars

----------------------------------------------------------------------------
(* SpecCallers: requests of several callers, one at a time, with the clock
   advancing.  The caller behind the proxy has a bucket already (or the server
   is not configured); the one that connects directly and the one without an
   address have none. *)

\* a request that arrives without an x-forwarded-for header
Direct(req) == [req EXCEPT !.forwarded = <<>>]

\* and without a socket address either
Anonymous(req) == [req EXCEPT !.forwarded = <<>>, !.socketAddr = ""]

CallerRequests ==
    {Req("POST", "generateContent", With("type", Str("tip", 3))),
     Direct(Req("POST", "editImage", NoPayload)),
     Anonymous(Req("POST", "constructor", EmptyPayload))}

Visit == \E req \in CallerRequests : Quiet /\ HandlerEntry(req)

NextCallers == Tick \/ Visit \/ Returns

SpecCallers == InitDispatch /\ [][NextCallers]_vars

----------------------------------------------------------------------------
(* SpecBurst: the scenario of section 8 of the specification.  One caller
   sends unit-cost requests: a burst of RATE_LIMIT_CAPACITY + 1 of them within
   less than a second of the first, then none for at least a second, then
   requests back to back until one is denied.  burst keeps the count. *)

BurstSize == RATE_LIMIT_CAPACITY + 1

BurstRequests ==
    {Req("POST", "summarize", EmptyPayload),
     Req("POST", "generateContent", With("type", Str("joke", 4)))}

BurstRequest(req) ==
    /\ ai
    /\ burst.phase \in {"off", "burst", "wait", "probe"}
    /\ burst.phase = "burst" => now - burst.t0 < TicksPerSec
    /\ burst.phase = "wait" => now - burst.tDenied >= TicksPerSec
    /\ burst.phase = "probe" => now = burst.tDenied + burst.waited
    /\ Handle(req)
    /\ \E adm \in {IF obs'.limiter = "admitted" THEN 1 ELSE 0} :
        burst' =
            CASE burst.phase = "off" ->
                    [burst EXCEPT !.phase = "burst", !.t0 = now, !.issued = 1,
                                  !.admitted = adm]
              [] burst.phase = "burst" ->
                    [burst EXCEPT
                        !.phase = IF burst.issued + 1 = BurstSize THEN "wait" ELSE "burst",
                        !.issued = burst.issued + 1,
                        !.admitted = burst.admitted + adm,
                        !.tDenied = now,
                        !.left = rateLimitMap'[getIp(req)].tokens]
              [] burst.phase = "wait" ->
                    [burst EXCEPT !.phase = IF adm = 1 THEN "probe" ELSE "end",
                                  !.waited = now - burst.tDenied,
                                  !.probes = adm]
              [] burst.phase = "probe" ->
                    [burst EXCEPT !.phase = IF adm = 1 THEN "probe" ELSE "end",
                                  !.probes = burst.probes + adm]

Burst == \E req \in BurstRequests : BurstRequest(req)

NextBurst == Tick \/ Burst

SpecBurst == Init /\ [][NextBurst]_vars

----------------------------------------------------------------------------
(* The transport clients: postToServer of src/services/geminiService.ts and
   callApi of the older client service *)

\* what fetch('/api/gemini') settles with: a network failure, or a status and
\* a body that is JSON text (of an object or of null) or is not
NetworkFailure == [network |-> TRUE, status |-> 0, json |-> FALSE, value |-> [t |-> "null"]]
Http(status, json, value) ==
    [network |-> FALSE, status |-> status, json |-> json, value |-> value]

Object(fields) == [t |-> "object", obj |-> fields]

HttpStatuses == {200, 201, 400, 429, 500, 502}

HttpResponses ==
    {NetworkFailure}
    \cup {Http(st, TRUE, v) :
            st \in HttpStatuses,
            v \in {Object([error |-> Text(<<"Rate limit exceeded. Try again later.">>)]),
                   Object([error |-> Text(<<"An internal server error occurred.">>),
                           details |-> Text(<<"quota exceeded">>)]),
                   Object([text |-> Text(<<"Save", " ", "early">>)]),
                   Object([error |-> Text(<<>>)]),
                   [t |-> "null"]}}
    \cup {Http(st, FALSE, [t |-> "null"]) : st \in HttpStatuses}

\* res.ok
Ok(res) == res.status >= 200 /\ res.status <= 299

\* v?.k
Get(v, k) == IF v.t = "object" /\ k \in DOMAIN v.obj THEN v.obj[k] ELSE Undef

Resolve(value) == [settled |-> "resolved", message |-> <<>>, value |-> value]
Reject(message) == [settled |-> "rejected", message |-> message, value |-> [t |-> "null"]]

FetchFailed == <<"Failed to fetch">>
SyntaxErrorMessage == <<"Unexpected token '<' is not valid JSON">>

postToServer(action, res) ==
    IF res.network THEN Reject(FetchFailed)
    ELSE IF ~Ok(res)
    THEN Reject(<<"Server error (", ToString(res.status),
                  ") when calling /api/gemini/", action>>)
    ELSE IF ~res.json THEN Reject(SyntaxErrorMessage)
    ELSE IF TextTruthy(Get(res.value, "error")) THEN Reject(Get(res.value, "error").chars)
    ELSE Resolve(res.value)

callApi(action, res) ==
    IF res.network THEN Reject(FetchFailed)
    ELSE IF ~Ok(res)
    THEN IF ~res.json THEN Reject(SyntaxErrorMessage)
         ELSE IF res.value.t = "null"
         THEN Reject(<<"Cannot read properties of null (reading 'details')">>)
         ELSE IF TextTruthy(Get(res.value, "details"))
         THEN Reject(Get(res.value, "details").chars)
         ELSE IF TextTruthy(Get(res.value, "error"))
         THEN Reject(Get(res.value, "error").chars)
         ELSE Reject(<<"API request failed with status ", ToString(res.status)>>)
    ELSE IF ~res.json THEN Reject(SyntaxErrorMessage)
    ELSE Resolve(res.value)

ClientActions ==
    {"generateContent", "generateImageWithQuote", "editImage", "generateVideoPrompts",
     "generateStoryElements", "generateImageForScene", "getAutomationStrategies"}

PostToServer(action, res) ==
    /\ client' = [client |-> "postToServer", action |-> action, res |-> res,
                  outcome |-> postToServer(action, res)]
    /\ UNCHANGED <<ai, now, rateLimitMap, inflight, obs, burst>>
    /\ UNCHANGED browser

CallApi(action, res) ==
    /\ client' = [client |-> "callApi", action |-> action, res |-> res,
                  outcome |-> callApi(action, res)]
    /\ UNCHANGED <<ai, now, rateLimitMap, inflight, obs, burst>>
    /\ UNCHANGED browser

NextTransport ==
    \/ \E action \in ClientActions, res \in HttpResponses : PostToServer(action, res)
    \/ \E action \in ClientActions, res \in HttpResponses : CallApi(action, res)

SpecTransport == Init /\ [][NextTransport]_vars

----------------------------------------------------------------------------
(* The storyboard: StoryBoardGenerator with its packaging step *)

MaxOutline == 2
MaxImageTasks == 2

\* a faulty variant: the scene is numbered by the loop index, from 0
SceneCardFromZero(n) ==
    [sceneNumber |-> n - 1, imageUrl |-> NoUrl, isGeneratingImage |-> FALSE]

\* { ...fetchedScenes[i], sceneNumber: i + 1 }
SceneCardOf(n) ==
    [sceneNumber |-> n, imageUrl |-> NoUrl, isGeneratingImage |-> FALSE]

\* { prompt: thumbnailPrompt }
ThumbnailOf ==
    [present |-> TRUE, imageUrl |-> NoUrl, isGeneratingImage |-> FALSE]

HasImage(card) == card.imageUrl.t = "url"

allImagesGenerated(thumbnail, scenes) ==
    /\ thumbnail.present /\ HasImage(thumbnail)
    /\ Len(scenes) > 0
    /\ \A i \in DOMAIN scenes : HasImage(scenes[i])

\* String(n), digit by digit
RECURSIVE Digits(_)
Digits(n) == IF n < 10 THEN <<ToString(n)>> ELSE Digits(n \div 10) \o <<ToString(n % 10)>>

\* cs.padStart(width, '0')
RECURSIVE padStart(_, _)
padStart(cs, width) == IF Len(cs) >= width THEN cs ELSE padStart(<<"0">> \o cs, width)

\* a faulty variant: the scene number is not padded
SceneEntryUnpadded(sceneNumber) == <<"scene-">> \o Digits(sceneNumber) \o <<".png">>

\* `scene-${String(scene.sceneNumber).padStart(2, '0')}.png`
SceneEntry(sceneNumber) == <<"scene-">> \o padStart(Digits(sceneNumber), 2) \o <<".png">>

\* the names of the files createZipBlob puts in the archive
createZipBlob(thumbnail, scenes) ==
    (IF thumbnail.present /\ HasImage(thumbnail) THEN {<<"thumbnail", ".png">>} ELSE {})
    \cup {SceneEntry(scenes[i].sceneNumber) : i \in {j \in DOMAIN scenes : HasImage(scenes[j])}}

\* the response of the handler whose call of the remote model was rejected
\* with `message`, as fetch delivers it
UpstreamFailure(message) ==
    Http(CatchError(message).sent[1].status, TRUE, Object(CatchError(message).sent[1].body))

\* the response of the handler to a request over the rate limit
RateLimited ==
    Http(429, TRUE, Object(ErrorPayload(<<"Rate limit exceeded. Try again later.">>)))

\* err.message of a rejected generateStoryElements: fetch failed, the request
\* was over the rate limit, or the remote model failed; through postToServer
\* (services/geminiService.ts) or through callApi (part_001)
OutlineFailures ==
    {postToServer("generateStoryElements", res).message :
        res \in {NetworkFailure, RateLimited}}
    \cup {postToServer("generateStoryElements", UpstreamFailure(f.message)).message :
            f \in Failures}
    \cup {callApi("generateStoryElements", UpstreamFailure(f.message)).message :
            f \in Failures}

\* what generateStoryElements settles with: a rejection, or thumbnailPrompt
\* and result.scenes, which is an array of n records or is undefined
OutlineResults ==
    {[kind |-> "rejected", n |-> 0, message |-> m] : m \in OutlineFailures}
    \cup {[kind |-> "array", n |-> n, message |-> <<>>] : n \in 0..MaxOutline}
    \cup {[kind |-> "undefined", n |-> 0, message |-> <<>>]}

\* err.message || fallback
MessageOr(message, fallback) == IF message = <<>> THEN fallback ELSE message

\* the card a key names, if it is on the board
HasCard(b, key) ==
    IF key = 0 THEN b.thumbnail.present
    ELSE \E i \in DOMAIN b.scenes : b.scenes[i].sceneNumber = key
CardOf(b, key) ==
    IF key = 0 THEN b.thumbnail
    ELSE b.scenes[CHOOSE i \in DOMAIN b.scenes : b.scenes[i].sceneNumber = key]

\* a faulty variant: the change is applied to every scene card
UpdateCardAll(b, key, imageUrl, isGeneratingImage) ==
    IF key = 0
    THEN [b EXCEPT !.thumbnail =
            IF @.present THEN [@ EXCEPT !.imageUrl = imageUrl,
                                        !.isGeneratingImage = isGeneratingImage]
            ELSE @]
    ELSE [b EXCEPT !.scenes =
            [i \in DOMAIN @ |-> [@[i] EXCEPT !.imageUrl = imageUrl,
                                              !.isGeneratingImage = isGeneratingImage]]]

\* prev => prev ? { ...prev, <change> } : null, and
\* prev => prev.map(s => s.sceneNumber === sceneNumber ? { ...s, <change> } : s)
UpdateCard(b, key, imageUrl, isGeneratingImage) ==
    IF key = 0
    THEN [b EXCEPT !.thumbnail =
            IF @.present THEN [@ EXCEPT !.imageUrl = imageUrl,
                                        !.isGeneratingImage = isGeneratingImage]
            ELSE @]
    ELSE [b EXCEPT !.scenes =
            [i \in DOMAIN @ |->
                IF @[i].sceneNumber = key
                THEN [@[i] EXCEPT !.imageUrl = imageUrl,
                                  !.isGeneratingImage = isGeneratingImage]
                ELSE @[i]]]

ImageError(key) ==
    <<"Failed to generate image for ", IF key = 0 THEN "thumbnail" ELSE "scene", " ",
      IF key = 0 THEN "" ELSE ToString(key), ".">>

\* how many requests are in flight for card `key`, issued for the board that
\* is shown (stale false) or for an earlier one; the requests of one kind are
\* numbered 1..Pending
PendingFor(images, key, stale) ==
    Cardinality({t \in images : t.key = key /\ t.stale = stale})

\* the requests in flight when the board is replaced are out of date
Outdated(images) ==
    {t \in images : t.stale}
    \cup {[t EXCEPT !.stale = TRUE, !.n = PendingFor(images, t.key, TRUE) + t.n] :
            t \in {u \in images : ~u.stale}}

Event(kind, key) == [kind |-> kind, key |-> key]

StoryStep(b, t) == board' = b /\ tasks' = t /\ UNCHANGED server /\ UNCHANGED panel

\* onChange of the topic input
SetTopic ==
    /\ board.topic = ""
    /\ StoryStep([board EXCEPT !.topic = "fox"], [tasks EXCEPT !.last = NoEvent])

\* handleGenerate up to its await; the button is disabled={isLoading || !topic}
HandleGenerate ==
    /\ ~board.isLoading /\ board.topic # ""
    /\ StoryStep([board EXCEPT !.isLoading = TRUE, !.scenes = <<>>,
                               !.thumbnail = NoThumbnail, !.error = NoError,
                               !.outline = 0,
                               !.generationStatus = <<"Crafting your story outline...">>],
                 [tasks EXCEPT !.outline = [phase |-> "await", n |-> 0, i |-> 0],
                               !.images = Outdated(@),
                               !.last = Event("generate", 0)])

\* generateStoryElements settles: lines 76-78 and the catch and finally
OutlineSettles(result) ==
    /\ tasks.outline.phase = "await"
    /\ CASE result.kind = "rejected" ->
              StoryStep([board EXCEPT
                            !.error = MessageOr(result.message,
                                <<"Failed to generate story. Please try again.">>),
                            !.isLoading = FALSE, !.generationStatus = <<>>],
                        [tasks EXCEPT !.outline = NoOutline,
                                      !.last = Event("outlineFailed", 0)])
         [] result.kind = "undefined" ->
              \* fetchedScenes.length of undefined is a TypeError
              StoryStep([board EXCEPT
                            !.thumbnail = ThumbnailOf,
                            !.error = <<"Cannot read properties of undefined (reading 'length')">>,
                            !.isLoading = FALSE, !.generationStatus = <<>>],
                        [tasks EXCEPT !.outline = NoOutline,
                                      !.last = Event("outlineFailed", 0)])
         [] result.kind = "array" /\ result.n = 0 ->
              StoryStep([board EXCEPT !.thumbnail = ThumbnailOf,
                                      !.isLoading = FALSE, !.generationStatus = <<>>],
                        [tasks EXCEPT !.outline = NoOutline,
                                      !.last = Event("outline", 0)])
         [] OTHER ->
              StoryStep([board EXCEPT !.thumbnail = ThumbnailOf,
                                      !.outline = result.n],
                        [tasks EXCEPT !.outline = [phase |-> "reveal", n |-> result.n,
                                                   i |-> 0],
                                      !.last = Event("outline", 0)])

\* parseInt(sceneCount, 10) || 7, with the scene count of the form left at '7'
numScenes == 7

\* `Revealing Scene ${i + 1} of ${numScenes}...`
Revealing(i) == <<"Revealing Scene ", ToString(i + 1), " of ", ToString(numScenes), "...">>

\* a faulty variant: the loop ends without the finally clause
RevealSceneUnfinished ==
    /\ tasks.outline.phase = "reveal"
    /\ \E i \in {tasks.outline.i} :
        StoryStep([board EXCEPT
                      !.scenes = Append(@, SceneCardOf(i + 1)),
                      !.generationStatus = Revealing(i)],
                  [tasks EXCEPT
                      !.outline = IF i + 1 < tasks.outline.n
                                  THEN [@ EXCEPT !.i = i + 1] ELSE NoOutline,
                      !.last = Event("reveal", i + 1)])

\* one turn of the reveal loop after its timer, and the finally after the last
RevealScene ==
    /\ tasks.outline.phase = "reveal"
    /\ \E i \in {tasks.outline.i} :
        StoryStep([board EXCEPT
                      !.scenes = Append(@, SceneCardOf(i + 1)),
                      !.isLoading = (i + 1 < tasks.outline.n),
                      !.generationStatus =
                          IF i + 1 < tasks.outline.n THEN Revealing(i) ELSE <<>>],
                  [tasks EXCEPT
                      !.outline = IF i + 1 < tasks.outline.n
                                  THEN [@ EXCEPT !.i = i + 1] ELSE NoOutline,
                      !.last = Event("reveal", i + 1)])

\* the card shows its "Generate Image" button (ImageCard)
OffersGenerate(card) == ~card.isGeneratingImage /\ ~HasImage(card)

\* a request for the image of card `key`; n tells apart the requests in
\* flight for one card
ImageTask(key, n) == [key |-> key, stale |-> FALSE, n |-> n]

\* the number of the next request for card `key`
FreeTask(images, key) == PendingFor(images, key, FALSE) + 1

\* a faulty variant: the button is there whatever the card shows
HandleGenerateImageAlways(key) ==
    /\ HasCard(board, key)
    /\ Cardinality(tasks.images) < MaxImageTasks
    /\ StoryStep(UpdateCard(board, key, CardOf(board, key).imageUrl, TRUE),
                 [tasks EXCEPT !.images = @ \cup {ImageTask(key, FreeTask(@, key))},
                               !.last = Event("requestImage", key)])

\* handleGenerateImage up to its await, from the button of card `key`
HandleGenerateImage(key) ==
    /\ HasCard(board, key) /\ OffersGenerate(CardOf(board, key))
    /\ Cardinality(tasks.images) < MaxImageTasks
    /\ StoryStep(UpdateCard(board, key, CardOf(board, key).imageUrl, TRUE),
                 [tasks EXCEPT !.images = @ \cup {ImageTask(key, FreeTask(@, key))},
                               !.last = Event("requestImage", key)])

\* generateImageForScene settles: with result.image, with undefined when the
\* response has no image field, or with a rejection
ImageOutcomes == {"image", "undefined", "rejected"}

ImageSettles(t, outcome) ==
    \* of the requests in flight for one card any may settle; they differ in
    \* nothing but their number, and the one settling is taken to be the last
    /\ t \in tasks.images /\ t.n = PendingFor(tasks.images, t.key, t.stale)
    /\ CASE outcome = "image" ->
              StoryStep(UpdateCard(board, t.key, Url(t.stale, t.key), FALSE),
                        [tasks EXCEPT !.images = @ \ {t},
                                      !.last = Event("image", t.key)])
         [] outcome = "undefined" ->
              StoryStep(UpdateCard(board, t.key, NoUrl, FALSE),
                        [tasks EXCEPT !.images = @ \ {t},
                                      !.last = Event("image", t.key)])
         [] OTHER ->
              StoryStep(UpdateCard([board EXCEPT !.error = ImageError(t.key)], t.key,
                                   IF HasCard(board, t.key)
                                   THEN CardOf(board, t.key).imageUrl ELSE NoUrl,
                                   FALSE),
                        [tasks EXCEPT !.images = @ \ {t},
                                      !.last = Event("imageFailed", t.key)])

\* "Start Over", shown when scenes.length > 0 && !isLoading
HandleClear ==
    /\ Len(board.scenes) > 0 /\ ~board.isLoading
    /\ StoryStep([board EXCEPT !.topic = "", !.scenes = <<>>, !.thumbnail = NoThumbnail,
                               !.error = NoError, !.outline = 0, !.generationStatus = <<>>],
                 [tasks EXCEPT !.images = Outdated(@), !.last = Event("clear", 0)])

MaxBuilds == 2

Snapshot == [running |-> TRUE, thumbnail |-> board.thumbnail, scenes |-> board.scenes]

\* "Download (.zip)", shown when allImagesGenerated, disabled={isZipping}
HandleDownloadAllImages ==
    /\ allImagesGenerated(board.thumbnail, board.scenes) /\ ~board.isZipping
    /\ tasks.builds < MaxBuilds
    /\ StoryStep([board EXCEPT !.isZipping = TRUE, !.error = NoError],
                 [tasks EXCEPT !.zip = Snapshot, !.last = Event("zip", 0)])

\* a faulty variant: a failed build drops the images of the cards
ZipSettlesDropping(ok) ==
    /\ tasks.zip.running
    /\ StoryStep([board EXCEPT !.isZipping = FALSE,
                               !.error = <<"Failed to create ZIP file.">>,
                               !.thumbnail.imageUrl = NoUrl],
                 [tasks EXCEPT !.zip = NoPackage,
                               !.last = Event(IF ok THEN "zipped" ELSE "zipFailed", 0)])

\* createZipBlob settles; a fetch of an image or generateAsync may reject
ZipSettles(ok) ==
    /\ tasks.zip.running
    /\ IF ok
       THEN StoryStep([board EXCEPT !.isZipping = FALSE],
                      [tasks EXCEPT
                          !.zip = NoPackage,
                          !.builds = @ + 1,
                          !.built = @ \cup {[scenes |-> Len(tasks.zip.scenes),
                                             names |-> createZipBlob(tasks.zip.thumbnail,
                                                                     tasks.zip.scenes)]},
                          !.last = Event("zipped", 0)])
       ELSE StoryStep([board EXCEPT !.isZipping = FALSE,
                                    !.error = <<"Failed to create ZIP file.">>],
                      [tasks EXCEPT !.zip = NoPackage,
                                    !.last = Event("zipFailed", 0)])

\* "Save to Drive", shown when googleAccessToken && allImagesGenerated,
\* disabled={isSavingToDrive}
HandleSaveToDrive ==
    /\ allImagesGenerated(board.thumbnail, board.scenes) /\ board.googleAccessToken
    /\ ~board.isSavingToDrive
    /\ StoryStep([board EXCEPT !.isSavingToDrive = TRUE, !.error = NoError],
                 [tasks EXCEPT !.drive = Snapshot, !.last = Event("drive", 0)])

\* what the rejection of createZipBlob, blobToBase64 or savePackageToDrive
\* carries as err.message: nothing, or a text
DriveFailures == {<<>>, <<"Failed to fetch">>}

\* a faulty variant: a failed save keeps the token
DriveSettlesKeeping(ok) ==
    /\ tasks.drive.running
    /\ IF ok
       THEN StoryStep([board EXCEPT !.isSavingToDrive = FALSE],
                      [tasks EXCEPT !.drive = NoPackage,
                                    !.last = Event("saved", 0)])
       ELSE \E message \in DriveFailures :
            StoryStep([board EXCEPT
                          !.isSavingToDrive = FALSE,
                          !.error = MessageOr(message, <<"Failed to save to Google Drive. Your token may have expired. Please try connecting again.">>)],
                      [tasks EXCEPT !.drive = NoPackage,
                                    !.last = Event("driveFailed", 0)])

\* createZipBlob, blobToBase64 and savePackageToDrive settle
DriveSettles(ok) ==
    /\ tasks.drive.running
    /\ IF ok
       THEN StoryStep([board EXCEPT !.isSavingToDrive = FALSE],
                      [tasks EXCEPT !.drive = NoPackage,
                                    !.last = Event("saved", 0)])
       ELSE \E message \in DriveFailures :
            StoryStep([board EXCEPT
                          !.isSavingToDrive = FALSE,
                          !.googleAccessToken = FALSE,
                          !.error = MessageOr(message, <<"Failed to save to Google Drive. Your token may have expired. Please try connecting again.">>)],
                      [tasks EXCEPT !.drive = NoPackage,
                                    !.last = Event("driveFailed", 0)])

\* "Connect Google Drive", shown with the storyboard when there is no token.
\* Unconfigured it only reports; configured it leaves the page for Google's
\* consent screen, and the page that loads on return starts anew, with the
\* token of the redirect if consent was given.
HandleGoogleConnect(configured, granted) ==
    /\ board.isLoading \/ Len(board.scenes) > 0 \/ board.thumbnail.present
    /\ ~board.googleAccessToken
    /\ IF ~configured
       THEN StoryStep([board EXCEPT !.error =
                        <<"Google integration is not configured. Please check environment variables.">>],
                      [tasks EXCEPT !.last = Event("connect", 0)])
       ELSE StoryStep([NoBoard EXCEPT !.googleAccessToken = granted],
                      [NoTasks EXCEPT !.last = Event("connect", 0)])

NextStory ==
    \/ SetTopic
    \/ HandleGenerate
    \/ \E result \in OutlineResults : OutlineSettles(result)
    \/ RevealScene
    \/ \E key \in 0..MaxOutline : HandleGenerateImage(key)
    \/ \E t \in tasks.images, outcome \in ImageOutcomes : ImageSettles(t, outcome)
    \/ HandleClear

InitStory == Init /\ ai

SpecStory == InitStory /\ [][NextStory]_vars

\* the awaited outline request settles and the timers of the reveal loop fire
SpecStoryLive ==
    /\ SpecStory
    /\ WF_vars(\E result \in OutlineResults : OutlineSettles(result))
    /\ WF_vars(RevealScene)

----------------------------------------------------------------------------
(* SpecPackage: the packaging step.  It starts from a storyboard whose outline
   has been revealed in full, with or without a Drive token; the user has the
   images generated one after the other, in any order, and then packages. *)

MaxArchiveScenes == 10

ArchiveSizes == {1, MaxArchiveScenes - 1, MaxArchiveScenes}

InitPackage ==
    /\ ai = TRUE
    /\ now = 0
    /\ rateLimitMap = EmptyMap
    /\ inflight = [s \in Slots |-> Idle]
    /\ obs = NoObs
    /\ burst = NoBurst
    /\ client = NoClient
    /\ \E k \in ArchiveSizes, token \in BOOLEAN :
        board = [NoBoard EXCEPT !.topic = "fox", !.thumbnail = ThumbnailOf,
                                !.scenes = [i \in 1..k |-> SceneCardOf(i)],
                                !.outline = k, !.googleAccessToken = token]
    /\ tasks = NoTasks
    /\ panel = NoPanel

GenerateOne ==
    \E key \in 0..MaxArchiveScenes : tasks.images = {} /\ HandleGenerateImage(key)

NextPackage ==
    \/ GenerateOne
    \/ \E t \in tasks.images : ImageSettles(t, "image")
    \/ HandleDownloadAllImages
    \/ \E ok \in BOOLEAN : ZipSettles(ok)
    \/ HandleSaveToDrive
    \/ \E ok \in BOOLEAN : DriveSettles(ok)
    \/ \E configured \in BOOLEAN, granted \in BOOLEAN : HandleGoogleConnect(configured, granted)

SpecPackage == InitPackage /\ [][NextPackage]_vars

----------------------------------------------------------------------------
(* SpecPanel: the quote and image panel (App, ContentGenerator) and the image
   editor (ImageEditor) *)

\* what generateContent resolves with: the text of the reply, trimmed
Contents == {"", "Rise", "Shine"}

\* what generateImageWithQuote resolves with
ImagePairs ==
    {[withOverlay |-> "over1", withoutOverlay |-> "base1"],
     [withOverlay |-> "over2", withoutOverlay |-> "base2"]}

\* what editImage resolves with
Edits == {"edit1", "edit2"}

PanelStep(p) == panel' = p /\ UNCHANGED server /\ UNCHANGED <<board, tasks>>

\* what the panel and the editor show
Shown ==
    [quote |-> panel.quote, generatedImages |-> panel.generatedImages,
     editedImage |-> panel.editedImage]

Pending(slot) == [slot |-> slot, was |-> Shown]

\* handleGenerateContent up to its await; the button is disabled={isLoadingContent}.
\* The effect of lines 62-66 clears the images when the quote becomes empty,
\* as line 34 has done already.
HandleGenerateContent ==
    /\ ~panel.isLoadingContent
    /\ PanelStep([panel EXCEPT !.isLoadingContent = TRUE, !.error = NoError,
                               !.quote = "", !.generatedImages = NoImages,
                               !.imagesFor = "",
                               !.pending = @ \cup {Pending("content")},
                               !.last = Event("content", 0)])

\* generateContent settles: it resolves with a text (ok) or rejects
ContentSettles(t, ok, result) ==
    /\ t \in panel.pending /\ t.slot = "content"
    /\ IF ~ok
       THEN PanelStep([panel EXCEPT
                          !.error = <<"Failed to generate ", "quote", ". Please try again.">>,
                          !.isLoadingContent = FALSE,
                          !.pending = @ \ {t}, !.was = t.was,
                          !.last = Event("contentFailed", 0)])
       ELSE PanelStep([panel EXCEPT
                          !.quote = result,
                          !.isLoadingContent = FALSE,
                          !.pending = @ \ {t}, !.was = t.was,
                          !.last = Event("contentDone", 0)])

\* handleGenerateImage of ContentGenerator up to its await; the button is
\* disabled={!quote || isLoadingImage || isLoadingContent}
HandleGenerateQuoteImage ==
    /\ panel.quote # "" /\ ~panel.isLoadingImage /\ ~panel.isLoadingContent
    /\ PanelStep([panel EXCEPT !.isLoadingImage = TRUE, !.error = NoError,
                               !.generatedImages = NoImages, !.imagesFor = "",
                               !.pending = @ \cup {Pending("image")},
                               !.last = Event("quoteImage", 0)])

\* generateImageWithQuote settles: it resolves with a pair (ok) or rejects.
\* imagesFor keeps the quote the request was made with (t.was.quote, the quote
\* of the closure of line 50).
QuoteImageSettles(t, ok, result) ==
    /\ t \in panel.pending /\ t.slot = "image"
    /\ IF ~ok
       THEN PanelStep([panel EXCEPT
                          !.error = <<"Failed to generate image. Please try again.">>,
                          !.isLoadingImage = FALSE,
                          !.pending = @ \ {t}, !.was = t.was,
                          !.last = Event("quoteImageFailed", 0)])
       ELSE PanelStep([panel EXCEPT
                          !.generatedImages = result, !.imagesFor = t.was.quote,
                          !.isLoadingImage = FALSE,
                          !.pending = @ \ {t}, !.was = t.was,
                          !.last = Event("quoteImageDone", 0)])

\* handleFileChange of ImageEditor, the file read
HandleFileChange ==
    /\ panel.originalImage = ""
    /\ PanelStep([panel EXCEPT !.originalImage = "photo", !.editedImage = "",
                               !.editorError = NoError,
                               !.last = Event("file", 0)])

\* handleSubmit up to its await, with a prompt typed; the button is
\* disabled={isLoading || !prompt}
HandleSubmit ==
    /\ panel.originalImage # "" /\ ~panel.editorLoading
    /\ PanelStep([panel EXCEPT !.editorLoading = TRUE, !.editorError = NoError,
                               !.editedImage = "",
                               !.pending = @ \cup {Pending("edit")},
                               !.last = Event("edit", 0)])

\* editImage settles: it resolves with an image (ok) or rejects
EditSettles(t, ok, result) ==
    /\ t \in panel.pending /\ t.slot = "edit"
    /\ IF ~ok
       THEN PanelStep([panel EXCEPT
                          !.editorError = <<"Failed to edit the image. Please try a different prompt or image.">>,
                          !.editorLoading = FALSE,
                          !.pending = @ \ {t}, !.was = t.was,
                          !.last = Event("editFailed", 0)])
       ELSE PanelStep([panel EXCEPT
                          !.editedImage = result,
                          !.editorLoading = FALSE,
                          !.pending = @ \ {t}, !.was = t.was,
                          !.last = Event("editDone", 0)])

\* handleReset of ImageEditor
HandleReset ==
    /\ panel.originalImage # ""
    /\ PanelStep([panel EXCEPT !.originalImage = "", !.editedImage = "",
                               !.editorError = NoError,
                               !.last = Event("reset", 0)])

NextPanel ==
    \/ HandleGenerateContent
    \/ \E t \in panel.pending, ok \in BOOLEAN, result \in Contents :
            ContentSettles(t, ok, result)
    \/ HandleGenerateQuoteImage
    \/ \E t \in panel.pending, ok \in BOOLEAN, result \in ImagePairs :
            QuoteImageSettles(t, ok, result)
    \/ HandleFileChange
    \/ HandleSubmit
    \/ \E t \in panel.pending, ok \in BOOLEAN, result \in Edits :
            EditSettles(t, ok, result)
    \/ HandleReset

InitPanel == Init /\ ai

SpecPanel == InitPanel /\ [][NextPanel]_vars

----------------------------------------------------------------------------
(* What the last invocation answered *)

Answered == obs.done /\ Len(obs.sent) = 1
Status == obs.sent[1].status
Body == obs.sent[1].body
Has(k) == k \in DOMAIN Body
Populated(k) == Has(k) /\ TextTruthy(Body[k])
ErrorIs(pieces) == Has("error") /\ Body["error"] = Text(pieces)
Ran == obs.step # "none"
Action == obs.req.action
Admitted == Ran /\ obs.limiter = "admitted"

----------------------------------------------------------------------------
(* Properties of the dispatch handler *)

OutOfRange(n) == IsNumber(n) /\ (n.v < 1 \/ n.v > 12)
TooLong(v, max) == IsString(v) /\ v.len > max

\* a request that breaks the checks C3 names
BreaksShape(req) ==
    \/ /\ req.action = "generateStoryElements"
       /\ \/ OutOfRange(Field(req.payload, "numScenes"))
          \/ TooLong(Field(req.payload, "topic"), 1000)
    \/ /\ req.action = "generateImageWithQuote"
       /\ TooLong(Field(req.payload, "quote"), 500)

\* C3: a request whose numScenes is outside 1..12, whose topic is longer than
\* 1000 characters or whose quote is longer than 500 characters never causes a
\* remote model call, and once past the rate limiter it is answered 400 with
\* an error body.
C3_ValidationBeforeRemote ==
    (Ran /\ BreaksShape(obs.req)) =>
        /\ obs.calls = <<>>
        /\ Answered
        /\ Admitted => (Status = 400 /\ Has("error"))

C3_Witness ==
    /\ Admitted /\ Answered /\ Status = 400
    /\ Action = "generateStoryElements"
    /\ Field(obs.req.payload, "numScenes") = Num(13)
    /\ ErrorIs(<<"numScenes must be a number between 1 and 12">>)

\* C4: a successful generateStoryElements response carries a thumbnail prompt
\* and exactly numScenes scene records.
C4_ExactlyNumScenes ==
    (Answered /\ Action = "generateStoryElements" /\ Status = 200) =>
        /\ Has("thumbnailPrompt")
        /\ Has("scenes")
        /\ Body["scenes"].t = "array"
        /\ Len(Body["scenes"].items) = Field(obs.req.payload, "numScenes").v

C6_CatalogDispatched ==
    (Answered /\ Action \in Catalog) => ~ErrorIs(<<"Unknown action: ", Action>>)

\* C7: a generateImageWithQuote response is either a success with withOverlay
\* and withoutOverlay both non-empty, or an error with neither of them.
C7_BothOrNeither ==
    (Answered /\ Action = "generateImageWithQuote") =>
        \/ Status = 200 /\ Populated("withOverlay") /\ Populated("withoutOverlay")
        \/ Status # 200 /\ Has("error") /\ ~Has("withOverlay") /\ ~Has("withoutOverlay")

C7_Witness ==
    /\ Answered /\ Action = "generateImageWithQuote" /\ Status = 200
    /\ Len(obs.calls) = 2
    /\ Populated("withOverlay") /\ Populated("withoutOverlay")

\* the success field an action's 200 response must carry
SuccessShape ==
    CASE Action = "generateContent" -> Populated("text")
      [] Action = "generateImageWithQuote" ->
            Populated("withOverlay") /\ Populated("withoutOverlay")
      [] Action = "editImage" -> Populated("edited")
      [] Action = "generateVideoPrompts" -> Has("prompts") /\ Body["prompts"].t = "array"
      [] Action = "generateStoryElements" ->
            /\ Has("thumbnailPrompt")
            /\ Has("scenes")
            /\ Body["scenes"].t = "array"
      [] Action = "getAutomationStrategies" ->
            Has("strategies") /\ Body["strategies"].t = "array"
      [] OTHER -> TRUE

\* C8: a 200 response always carries its action's success field; a reply that
\* lacks it is answered 500.
C8_NoPartialSuccess == (Answered /\ Status = 200) => SuccessShape

\* C9: an invocation that has ended sent exactly one response, a JSON object
\* with a status among 200, 400, 405, 429 and 500 (an error object unless the
\* status is 200), and let no exception escape; one that has not ended has
\* sent nothing and awaits the remote model.
C9_OneStructuredResponse ==
    Ran =>
        /\ ~obs.thrown
        /\ obs.done =>
            /\ Len(obs.sent) = 1
            /\ Status \in {200, 400, 405, 429, 500}
            /\ (Status # 200) => (DOMAIN Body \subseteq {"error", "raw"} /\ Has("error")
                                  /\ Body["error"].t = "string")
            /\ (Status = 200) => ~Has("error")
        /\ ~obs.done =>
            /\ obs.sent = <<>>
            /\ \E s \in Slots : inflight[s].req = obs.req /\ inflight[s].calls = obs.calls

C9_Witness ==
    /\ Answered /\ obs.step = "reply" /\ Status = 500
    /\ ErrorIs(<<"quota exceeded">>)

----------------------------------------------------------------------------
(* Properties of the rate limiter *)

\* the cost the catalog assigns, in token units
UnitsOf(action) ==
    (IF action \in DOMAIN costMap THEN costMap[action] ELSE 1) * TicksPerSec

\* the step is the entry of a request that reaches the rate limiter
ReachesLimiter ==
    /\ now' = now
    /\ obs'.step = "entry"
    /\ obs'.req.method = "POST" /\ obs'.req.action # "" /\ ai

\* the caller's tokens once refilled: 60 for a caller not seen before, else
\* one token per elapsed second on top of what was left, capped at 60
RefilledBefore(ip) ==
    IF ip \notin DOMAIN rateLimitMap THEN 60 * TicksPerSec
    ELSE Min(60 * TicksPerSec,
             rateLimitMap[ip].tokens + (now - rateLimitMap[ip].lastRefill))

\* what the step of a request that reaches the limiter does, when the refilled
\* count covering the cost is the condition enough
BucketStep(enough) ==
    LET ip == getIp(obs'.req)
        cost == UnitsOf(obs'.req.action)
    IN  /\ (obs'.limiter = "admitted") <=> enough
        /\ (obs'.limiter = "denied") <=> ~enough
        /\ ip \in DOMAIN rateLimitMap'
        /\ rateLimitMap'[ip].tokens =
                IF enough THEN RefilledBefore(ip) - cost ELSE RefilledBefore(ip)
        /\ rateLimitMap'[ip].lastRefill = now
        /\ ~enough => /\ obs'.done /\ Len(obs'.sent) = 1
                      /\ obs'.sent[1].status = 429
                      /\ obs'.calls = <<>>

C1_Step ==
    ReachesLimiter =>
        BucketStep(RefilledBefore(getIp(obs'.req)) >= UnitsOf(obs'.req.action))

\* C1: a request that reaches the rate limiter finds its caller's bucket
\* refilled by one token per elapsed second up to 60 (a new caller's bucket is
\* full); it is admitted and its cost debited iff the refilled count covers
\* the cost of its action (1 for an action without an entry in the cost
\* table), and otherwise it is answered 429 with no remote model call.
C1_TokenBucket == [][C1_Step]_vars

\* the same, of the requests whose action is not the name of a member every
\* object inherits
TokenBucketOwnCosts ==
    [][(ReachesLimiter /\ obs'.req.action \notin ObjectPrototypeKeys) =>
        BucketStep(RefilledBefore(getIp(obs'.req)) >= UnitsOf(obs'.req.action))]_vars

\* and those are never admitted
InheritedNeverAdmitted ==
    [][(ReachesLimiter /\ obs'.req.action \in ObjectPrototypeKeys) =>
        BucketStep(FALSE)]_vars

\* the burst: every request up to the 60th is admitted, the 61st is denied and
\* answered 429
BurstAdmitsSixty ==
    /\ burst.issued <= 60 => burst.admitted = burst.issued
    /\ burst.issued = 61 => burst.admitted = 60
    /\ burst.phase = "wait" => (Answered /\ Status = 429 /\ obs.limiter = "denied")

----------------------------------------------------------------------------
(* Properties of the transport clients *)

Called == client.client # "none"
Unparseable(res) == ~res.network /\ ~res.json

\* C10: the call rejects whenever the status is not 2xx or the body is not
\* JSON, with a non-empty message, which names the status code when the status
\* is not 2xx and the body is not JSON; it never resolves for a non-2xx status.
C10_RejectsWithStatus ==
    Called =>
        /\ (client.res.network \/ ~Ok(client.res) \/ Unparseable(client.res)) =>
                /\ client.outcome.settled = "rejected"
                /\ \E i \in DOMAIN client.outcome.message : client.outcome.message[i] # ""
        /\ (~client.res.network /\ ~Ok(client.res) /\ Unparseable(client.res)) =>
                \E i \in DOMAIN client.outcome.message :
                    client.outcome.message[i] = ToString(client.res.status)

\* generateContent of the client: (result.text || '').trim() of the body
generateContent(body) ==
    IF "text" \in DOMAIN body /\ body["text"].t = "string" THEN Trim(body["text"])
    ELSE Text(<<>>)

\* C18: the text delivered to the caller of a generateContent request (type
\* quote or tip) that was answered with success is not empty and has no
\* double-quote character in it.
C18_TextWithoutQuotes ==
    (/\ Answered /\ Status = 200 /\ Action = "generateContent"
     /\ obs.req.payload \in {With("type", Str("quote", 5)), With("type", Str("tip", 3))})
    => /\ TextTruthy(generateContent(Body))
       /\ \A i \in DOMAIN generateContent(Body).chars :
             generateContent(Body).chars[i] # "\""

\* what does hold: the caller gets the model's text with the white space at
\* its ends removed, or the empty text when there was none
TextAsProduced ==
    (Answered /\ Status = 200 /\ Action = "generateContent")
    => \E reply \in TextReplies :
          generateContent(Body) = (IF reply.text = Undef THEN Text(<<>>) ELSE Trim(reply.text))

\* the k-th call of the last invocation yielded a part with inline data
Yielded(k) ==
    /\ Len(obs.replies) >= k
    /\ ~obs.replies[k].throws
    /\ FirstInline(obs.replies[k].parts) # 0

\* the image of the first inline part of the k-th reply, as lines 162-163
\* read it
ImageOf(k) ==
    LET part == obs.replies[k].parts[FirstInline(obs.replies[k].parts)]
    IN  InlinePart(OrElse(part.mimeType, "image/png"), OrElse(part.data, ""))

\* C19: in generateImageWithQuote the overlay call is the second call, made
\* only after the base call yielded an inline part, and carries that part's
\* image; when the base call yields none there is no overlay call and the
\* answer is an error; when the overlay call yields none the answer is an
\* error that carries neither image.
C19_OverlayAfterBase ==
    (Ran /\ Action = "generateImageWithQuote") =>
        /\ \A k \in DOMAIN obs.calls :
              obs.calls[k].stage = "overlay" =>
                 /\ k = 2 /\ obs.calls[1].stage = "base"
                 /\ Yielded(1)
                 /\ obs.calls[2].image = ImageOf(1)
        /\ (Len(obs.replies) >= 1 /\ ~Yielded(1)) =>
              /\ Len(obs.calls) = 1
              /\ Answered /\ Status = 500 /\ ~Has("withoutOverlay")
        /\ (Len(obs.replies) = 2 /\ ~Yielded(2)) =>
              /\ Answered /\ Status = 500
              /\ ~Has("withoutOverlay") /\ ~Has("withOverlay")
        /\ (Answered /\ Status = 200) => Yielded(1) /\ Yielded(2)

C19_Witness ==
    /\ Action = "generateImageWithQuote"
    /\ Len(obs.calls) = 2 /\ obs.calls[2].stage = "overlay"
    /\ obs.replies[1].parts = <<TextPart, InlinePart("image/png", "AAAA")>>
    /\ obs.calls[2].image = InlinePart("image/png", "AAAA")
    /\ Len(obs.replies) = 2 /\ obs.replies[2].parts = <<TextPart>>
    /\ Answered /\ ErrorIs(<<"Failed to add overlay to image">>)

\* C24: without the API key, a POST request that names an action is answered
\* 500 at once, whatever its payload: no bucket is created or debited, the
\* payload is not validated (no 400) and the remote model is not called.
C24_ConfigErrorFirst ==
    ~ai =>
        /\ rateLimitMap = EmptyMap
        /\ \A s \in Slots : inflight[s] = Idle
        /\ (Ran /\ obs.req.method = "POST" /\ obs.req.action # "") =>
              /\ Answered /\ Status = 500
              /\ ErrorIs(<<"Server misconfigured: GENAI_API_KEY is not set">>)
              /\ obs.limiter = "skipped"
              /\ obs.calls = <<>>

C24_Witness ==
    /\ ~ai /\ Answered /\ Status = 500
    /\ Action = "generateStoryElements"
    /\ Field(obs.req.payload, "numScenes") = Num(13)
    /\ BreaksShape(obs.req)

----------------------------------------------------------------------------
(* Properties of the storyboard *)

SceneNumbers(scenes) == [i \in DOMAIN scenes |-> scenes[i].sceneNumber]

\* the scene list is the cards numbered 1..k in that order, k within the outline
DenseScenes ==
    /\ \A i \in DOMAIN board.scenes : board.scenes[i].sceneNumber = i
    /\ Len(board.scenes) <= board.outline

\* a step leaves the numbers of the list as they are, empties the list, or
\* appends the one card whose number follows the last
OneAtATime ==
    \/ SceneNumbers(board'.scenes) = SceneNumbers(board.scenes)
    \/ board'.scenes = <<>>
    \/ /\ Len(board'.scenes) = Len(board.scenes) + 1
       /\ SubSeq(board'.scenes, 1, Len(board.scenes)) = board.scenes
       /\ board'.scenes[Len(board'.scenes)].sceneNumber = Len(board.scenes) + 1

\* C11: in every state the visible scene list is exactly the cards numbered
\* 1..k in ascending order, for a k that does not exceed the number of scenes
\* of the current outline, and a step that adds to the list appends one card,
\* the next in number.
C11_DenseAscendingReveal == []DenseScenes /\ [][OneAtATime]_vars

C11_Witness ==
    /\ tasks.last = Event("reveal", 2)
    /\ Len(board.scenes) = 2 /\ board.outline = 2
    /\ SceneNumbers(board.scenes) = <<1, 2>>
    /\ ~board.isLoading

\* the step is the catch clause of a request for an image
ImageRequestFails == tasks'.last.kind = "imageFailed" /\ tasks'.images # tasks.images

\* the cards other than the one `key` names
Siblings(b, key) ==
    [thumbnail |-> IF key = 0 THEN NoThumbnail ELSE b.thumbnail,
     scenes |-> [i \in DOMAIN b.scenes |->
                    IF b.scenes[i].sceneNumber = key THEN SceneCardOf(key)
                    ELSE b.scenes[i]]]

ScopedFailure ==
    ImageRequestFails =>
        LET key == tasks'.last.key IN
        /\ Siblings(board', key) = Siblings(board, key)
        /\ HasCard(board', key) = HasCard(board, key)
        /\ HasCard(board, key) =>
              /\ CardOf(board', key) = [CardOf(board, key) EXCEPT !.isGeneratingImage = FALSE]
              /\ ~HasImage(CardOf(board, key)) => OffersGenerate(CardOf(board', key))
        /\ board'.error = ImageError(key)
        /\ \E t \in tasks.images : t.key = key /\ tasks'.images = tasks.images \ {t}
        /\ board'.isLoading = board.isLoading /\ tasks'.outline = tasks.outline

PackagingAvailable == allImagesGenerated(board.thumbnail, board.scenes)

\* the thumbnail and each of the scenes of the current outline, however many
\* of them are on the board yet, have an image
OutlineImagesPopulated ==
    /\ board.thumbnail.present /\ HasImage(board.thumbnail)
    /\ board.outline > 0
    /\ Len(board.scenes) = board.outline
    /\ \A i \in DOMAIN board.scenes : HasImage(board.scenes[i])

\* C13: packaging is available exactly when the thumbnail and all the scenes
\* of the current outline have an image, and never before.
C13_PackagingWhenComplete == PackagingAvailable <=> OutlineImagesPopulated

\* the half that holds in every state: with all the images of the outline,
\* packaging is available
PackagingWhenAllPopulated == OutlineImagesPopulated => PackagingAvailable

\* an image on a card came from a request issued for that card: the request
\* was for the card's number and was issued after the board last changed
\* storyboards
OwnImage(card, key) ==
    HasImage(card) => card.imageUrl.key = key /\ ~card.imageUrl.stale

\* C20: under every interleaving of generate, regenerate, start over and
\* per-card requests and responses, the image a card holds was produced by a
\* request issued for that card of that storyboard, never by one issued for a
\* card of an earlier storyboard or for another card.
C20_ResponseUpdatesOwnCard ==
    /\ board.thumbnail.present => OwnImage(board.thumbnail, 0)
    /\ \A i \in DOMAIN board.scenes :
          OwnImage(board.scenes[i], board.scenes[i].sceneNumber)

\* what does hold: a response touches the card of its number only
ResponseKeepsNumber ==
    /\ board.thumbnail.present /\ HasImage(board.thumbnail) => board.thumbnail.imageUrl.key = 0
    /\ \A i \in DOMAIN board.scenes :
          HasImage(board.scenes[i]) =>
              board.scenes[i].imageUrl.key = board.scenes[i].sceneNumber

\* the texts the remote model's client rejects with
ProviderTexts == {f.message : f \in Failures} \ {""}

\* C25: the error shown to the user never contains the error text of the
\* provider.
C25_ProviderTextHidden ==
    \A i \in DOMAIN board.error : board.error[i] \notin ProviderTexts

\* what does hold: with the client of services/geminiService.ts a failure of
\* the remote model reaches the user as the status line the client makes up
HiddenByPostToServer ==
    \A f \in Failures :
        \A i \in DOMAIN postToServer("generateStoryElements",
                                     UpstreamFailure(f.message)).message :
            postToServer("generateStoryElements", UpstreamFailure(f.message)).message[i]
                \notin ProviderTexts

\* handleGenerate has ended in its catch clause
OutlineFailed == tasks.last.kind = "outlineFailed"

\* C15: when the outline step has failed, because the request was rejected or
\* because its result has no scenes to reveal, the scene list is empty, there
\* is no thumbnail card, isLoading is false and an error is shown.
C15_OutlineFailureClears ==
    OutlineFailed =>
        /\ board.scenes = <<>>
        /\ ~board.thumbnail.present
        /\ ~board.isLoading
        /\ board.error # NoError

\* what does hold after the failure
OutlineFailureReported ==
    OutlineFailed => board.scenes = <<>> /\ ~board.isLoading /\ board.error # NoError

\* the card shows its spinner over an image it already holds
GeneratingOverImage(card) == card.isGeneratingImage /\ HasImage(card)

\* C21: in every state, neither the thumbnail nor any scene card has
\* isGeneratingImage true together with a populated imageUrl.
C21_GeneratingExcludesImage ==
    /\ board.thumbnail.present => ~GeneratingOverImage(board.thumbnail)
    /\ \A i \in DOMAIN board.scenes : ~GeneratingOverImage(board.scenes[i])

\* a card had two requests in flight, one of an earlier storyboard; the old
\* one has put its image on the card while the new one is still in flight
C21_Witness ==
    /\ tasks.last = Event("image", 1)
    /\ HasCard(board, 1) /\ HasImage(CardOf(board, 1))
    /\ ~CardOf(board, 1).isGeneratingImage
    /\ \E t \in tasks.images : t.key = 1 /\ ~t.stale
    /\ CardOf(board, 1).imageUrl.stale

\* the requests in flight for the image of the card numbered key
RequestsFor(key) == {t \in tasks.images : t.key = key}

\* C22: at most one request is outstanding for each card's image, and at most
\* one for the outline, at any time.
C22_OneRequestPerSlot ==
    /\ \A key \in 0..MaxOutline : Cardinality(RequestsFor(key)) <= 1
    /\ tasks.outline.phase = "await" => board.isLoading

\* the same, for the requests issued for the storyboard on the board
OneRequestPerCurrentCard ==
    \A key \in 0..MaxOutline : Cardinality({t \in RequestsFor(key) : ~t.stale}) <= 1

\* what does hold: the generate button is disabled and Start Over hidden
\* exactly while the outline is requested or revealed
OutlineSlotBusy ==
    /\ tasks.outline.phase # "idle" => board.isLoading
    /\ tasks.outline.phase = "idle" => ~board.isLoading

\* where handleGenerate is, and what the page shows of it
FlowIdle ==
    tasks.outline.phase = "idle" /\ ~board.isLoading /\ board.generationStatus = <<>>
OutlineRequested ==
    /\ tasks.outline.phase = "await" /\ board.isLoading
    /\ board.generationStatus = <<"Crafting your story outline...">>
    /\ board.scenes = <<>> /\ ~board.thumbnail.present
RevealingScenes ==
    /\ tasks.outline.phase = "reveal" /\ board.isLoading
    /\ Len(board.scenes) = tasks.outline.i /\ tasks.outline.i < tasks.outline.n
    /\ board.outline = tasks.outline.n

\* the flow has come back to idle with what it set out to show
FlowEnded ==
    /\ FlowIdle
    /\ \/ tasks.last.kind = "outlineFailed" /\ board.scenes = <<>>
       \/ tasks.last = Event("outline", 0) /\ board.scenes = <<>> /\ board.outline = 0
       \/ /\ tasks.last = Event("reveal", board.outline)
          /\ Len(board.scenes) = board.outline

\* a step of the flow goes to the next of its states
FlowStep ==
    /\ (FlowIdle /\ tasks'.last.kind = "generate") => OutlineRequested'
    /\ OutlineRequested => (OutlineRequested' \/ RevealingScenes' \/ FlowEnded')
    /\ RevealingScenes =>
          \/ RevealingScenes' /\ Len(board'.scenes) \in {Len(board.scenes), Len(board.scenes) + 1}
          \/ FlowEnded' /\ Len(board'.scenes) = Len(board.scenes) + 1

\* C23: the flow is always idle, requesting the outline or revealing scenes,
\* and steps from idle to requested on a submit, from requested to revealing
\* or back to idle, and from revealing scene i to scene i + 1 or back to idle;
\* once the outline is requested (and given that the request settles) the flow
\* comes back to idle with isLoading false and the status text empty, showing
\* all the scenes fetched after a success and none after a failure.
C23_StoryFlow ==
    /\ [](FlowIdle \/ OutlineRequested \/ RevealingScenes)
    /\ [][FlowStep]_vars
    /\ (OutlineRequested ~> FlowEnded)

C23_Witness ==
    /\ FlowEnded
    /\ tasks.last = Event("reveal", 2)
    /\ board.generationStatus = <<>>
    /\ \A i \in 1..2 : board.scenes[i].sceneNumber = i

----------------------------------------------------------------------------
(* Properties of the packaging step *)

\* the names an archive of a thumbnail and the scenes 1..k is to have: NN is
\* the tens digit and the units digit of the scene number
EntryNames(k) ==
    {<<"thumbnail", ".png">>}
    \cup {<<"scene-", ToString(n \div 10), ToString(n % 10), ".png">> : n \in 1..k}

\* C14: every archive built holds one thumbnail entry and one scene-NN entry
\* per scene, NN the scene number padded with a zero to two digits, whatever
\* the order the images were generated in; hence all the archives built from
\* the same cards, however many, have the same names.
C14_SameEntryNames ==
    /\ \A a \in tasks.built : a.names = EntryNames(a.scenes)
    /\ \A a, b \in tasks.built : a.scenes = b.scenes => a.names = b.names

C14_Witness ==
    /\ tasks.builds = 2
    /\ tasks.last.kind = "zipped"
    /\ \E a \in tasks.built :
          /\ a.scenes = 10
          /\ <<"scene-", "0", "9", ".png">> \in a.names
          /\ <<"scene-", "1", "0", ".png">> \in a.names
          /\ Cardinality(a.names) = 11

\* the step is the catch clause of a packaging handler
PackagingFails ==
    \/ tasks'.last.kind = "zipFailed" /\ tasks.zip.running /\ ~tasks'.zip.running
    \/ tasks'.last.kind = "driveFailed" /\ tasks.drive.running /\ ~tasks'.drive.running

CardsKept ==
    PackagingFails =>
        /\ board'.scenes = board.scenes
        /\ board'.thumbnail = board.thumbnail
        /\ board'.error # NoError
        /\ allImagesGenerated(board'.thumbnail, board'.scenes)
        /\ tasks'.images = tasks.images
        /\ tasks'.last.kind = "zipFailed" => ~board'.isZipping
        /\ tasks'.last.kind = "driveFailed" =>
              ~board'.isSavingToDrive /\ ~board'.googleAccessToken

\* C16: a step in which the archive build or the Drive upload fails leaves
\* the thumbnail and every scene card as they were and reports an error; all
\* the images are still there, so the packaging buttons are still rendered,
\* and the button of the handler that failed is enabled again (Save to Drive
\* once a token is held again).
C16_PackagingFailureKeepsCards == [][CardsKept]_vars

C16_Witness ==
    /\ tasks.last.kind = "zipFailed"
    /\ board.error = <<"Failed to create ZIP file.">>
    /\ allImagesGenerated(board.thumbnail, board.scenes)
    /\ ~board.isZipping
    /\ tasks.builds = 1

----------------------------------------------------------------------------
(* Properties of the quote and image panel and of the editor *)

\* C17: after a failed request the slot it was for shows what it showed when
\* the request was issued (the quote, the image pair, the edited image) and
\* an error message is shown.
C17_FailureRestoresSlot ==
    /\ panel.last.kind = "contentFailed" =>
          panel.quote = panel.was.quote /\ panel.error # NoError
    /\ panel.last.kind = "quoteImageFailed" =>
          panel.generatedImages = panel.was.generatedImages /\ panel.error # NoError
    /\ panel.last.kind = "editFailed" =>
          panel.editedImage = panel.was.editedImage /\ panel.editorError # NoError

\* what does hold after a failed request: the error of the component is set
\* and its busy flag is off
FailureReported ==
    /\ panel.last.kind = "contentFailed" => panel.error # NoError /\ ~panel.isLoadingContent
    /\ panel.last.kind = "quoteImageFailed" => panel.error # NoError /\ ~panel.isLoadingImage
    /\ panel.last.kind = "editFailed" => panel.editorError # NoError /\ ~panel.editorLoading

----------------------------------------------------------------------------
(* The limiter under interleaved requests, and its buckets *)

\* the step writes the caller's bucket from what the bucket holds when the step
\* is taken: the refilled count, less the cost when the request is admitted
WritesFromStored ==
    rateLimitMap' # rateLimitMap =>
        /\ obs'.step = "entry" /\ now' = now
        /\ obs'.limiter \in {"admitted", "denied"}
        /\ rateLimitMap'[Caller].lastRefill = now
        /\ rateLimitMap'[Caller].tokens =
                IF obs'.limiter = "admitted"
                THEN RefilledBefore(Caller) - UnitsOf(obs'.req.action)
                ELSE RefilledBefore(Caller)

\* the cost admitted for the caller in ticks from..to is at most 60 tokens
\* and one token per second elapsed
WithinBudget ==
    \A from \in 0..now :
        \A to \in from..now :
            SumTo(burst, from, to) <= Capacity + (to - from) * RATE_LIMIT_REFILL_PER_SEC

\* C26: whatever the interleaving of one caller's requests, a request's check
\* and debit of the bucket are one step on the bucket as stored (no request
\* reads a bucket another has read and not yet written), and the cost admitted
\* for the caller between two instants is at most 60 plus the seconds elapsed
\* between them.
C26_AtomicBudget == []WithinBudget /\ [][WritesFromStored]_vars

\* a request was admitted while another awaited the remote model, and it took
\* the last of a budget used in full since the start
C26_Witness ==
    /\ now > 0
    /\ inflight[1] # Idle
    /\ obs.step = "entry" /\ obs.limiter = "admitted"
    /\ obs.req # inflight[1].req
    /\ SumTo(burst, 0, now) = Capacity + now * RATE_LIMIT_REFILL_PER_SEC

\* every stored bucket holds between 0 and 60 tokens
BucketsInRange ==
    \A ip \in DOMAIN rateLimitMap :
        rateLimitMap[ip].tokens >= 0 /\ rateLimitMap[ip].tokens <= Capacity

\* a step keeps every bucket, never moves a lastRefill back, and changes or
\* adds at most the bucket of the caller of the request that entered
OwnBucketOnly ==
    /\ DOMAIN rateLimitMap \subseteq DOMAIN rateLimitMap'
    /\ \A ip \in DOMAIN rateLimitMap :
            rateLimitMap'[ip].lastRefill >= rateLimitMap[ip].lastRefill
    /\ rateLimitMap' # rateLimitMap =>
            /\ obs'.step = "entry" /\ now' = now
            /\ \A ip \in DOMAIN rateLimitMap' \ {getIp(obs'.req)} :
                    ip \in DOMAIN rateLimitMap /\ rateLimitMap'[ip] = rateLimitMap[ip]

\* C27: in every reachable state every stored bucket has 0 <= tokens <= 60;
\* a bucket's lastRefill never decreases; and a request changes the bucket of
\* its own caller only.
C27_BucketsKept == []BucketsInRange /\ [][OwnBucketOnly]_vars

\* three callers have buckets; the one that connects directly has just been
\* debited, while the first caller's bucket is as it was left at the start
C27_Witness ==
    /\ DOMAIN rateLimitMap = {"a", "b", "unknown"}
    /\ now > 0
    /\ obs.step = "entry" /\ obs.limiter = "admitted" /\ getIp(obs.req) = "b"
    /\ rateLimitMap["b"].lastRefill = now
    /\ rateLimitMap["b"].tokens < Capacity
    /\ rateLimitMap["a"] = [tokens |-> WarmTokens * TicksPerSec, lastRefill |-> 0]

----------------------------------------------------------------------------
(* The limiter comes before validation and dispatch *)

\* the request that entered was answered at once with this status
AnsweredAtEntry(status) ==
    obs'.done /\ Len(obs'.sent) = 1 /\ obs'.sent[1].status = status

\* a request that reaches the limiter and is not answered 429 has paid its
\* cost, whatever it is answered; one answered 429 has paid nothing; one that
\* the refilled bucket does not cover is answered 429, valid or not
DebitFirst ==
    LET ip == getIp(obs'.req)
        cost == UnitsOf(obs'.req.action)
    IN  ReachesLimiter =>
            /\ ip \in DOMAIN rateLimitMap'
            /\ rateLimitMap'[ip].tokens =
                    IF AnsweredAtEntry(429) THEN RefilledBefore(ip)
                    ELSE RefilledBefore(ip) - cost
            /\ RefilledBefore(ip) < cost => AnsweredAtEntry(429)

\* no later step of the request gives the cost back
NoRefund == obs'.step # "entry" => rateLimitMap' = rateLimitMap

\* C28: the rate-limit debit comes before payload validation and dispatch: a
\* request admitted and then rejected as invalid (400) or as an unknown action
\* (400, cost 1) has consumed its cost and is not refunded; a request both
\* over budget and invalid is answered 429, not 400; a denied request debits
\* nothing.
C28_DebitBeforeValidation == [][DebitFirst /\ NoRefund]_vars

\* the first request, of generateStoryElements with 13 scenes, was answered 400
\* and the caller's bucket is 3 tokens down
C28_Witness ==
    /\ Answered /\ Status = 400
    /\ Action = "generateStoryElements"
    /\ ErrorIs(<<"numScenes must be a number between 1 and 12">>)
    /\ rateLimitMap["a"].tokens = (WarmTokens - costMap["generateStoryElements"]) * TicksPerSec

\* the other cases of the claim: an unknown action charged 1 token and
\* answered 400, and an invalid request over budget answered 429
UnknownActionCharged ==
    /\ Answered /\ Status = 400 /\ Action = "summarize"
    /\ rateLimitMap["a"].tokens = (WarmTokens - 1) * TicksPerSec

InvalidOverBudget ==
    /\ Answered /\ Status = 429 /\ obs.limiter = "denied"
    /\ Action = "generateStoryElements"
    /\ Field(obs.req.payload, "numScenes") = Num(13)

----------------------------------------------------------------------------
(* The content generator's image pair and its quote *)

ImagesShown == panel.generatedImages # NoImages

\* C29: in the content generator, whenever the generated image pair is
\* populated it was generated from the quote held in state, and the pair is
\* empty whenever the quote is empty, under every interleaving of content and
\* image requests and their responses.
C29_ImagesOfCurrentQuote ==
    /\ ImagesShown => panel.imagesFor = panel.quote
    /\ panel.quote = "" => ~ImagesShown

\* what does hold: a pair shown was requested with a quote that was not empty
\* (the guard of line 46 and the button's disabled={!quote || ...})
ImagesOfQuoteRequested == ImagesShown => panel.imagesFor # ""

\* a pair is shown beside a quote generated after the pair was requested
ImagesOfReplacedQuote ==
    /\ ImagesShown
    /\ panel.quote # "" /\ panel.imagesFor # panel.quote

----------------------------------------------------------------------------
(* The Drive token *)

\* the step is the failure of the save-to-Drive step, of the download
DriveFails == tasks.drive.running /\ tasks'.last.kind = "driveFailed"
ZipFails == tasks.zip.running /\ tasks'.last.kind = "zipFailed"

\* the step starts a save to Drive
SaveStarts == ~tasks.drive.running /\ tasks'.drive.running

\* the step stores a token
TokenStored == ~board.googleAccessToken /\ board'.googleAccessToken

TokenStep ==
    /\ DriveFails => ~board'.googleAccessToken /\ ~tasks'.drive.running
    /\ SaveStarts => board.googleAccessToken
    /\ TokenStored => /\ tasks'.last = Event("connect", 0)
                      /\ board' = [NoBoard EXCEPT !.googleAccessToken = TRUE]
    /\ ZipFails => board'.googleAccessToken = board.googleAccessToken

\* C30: a failure inside the save-to-Drive step (archive build, encoding or
\* upload) clears the stored Google access token; from then on no save to
\* Drive starts until a token is obtained through the OAuth redirect, which
\* loads the page anew; a failed download-as-zip leaves the token as it was.
C30_FailedSaveDropsToken == [][TokenStep]_vars

\* a save has failed: the token is gone while every image is still in place
C30_Witness ==
    /\ tasks.last.kind = "driveFailed"
    /\ ~board.googleAccessToken
    /\ ~board.isSavingToDrive
    /\ allImagesGenerated(board.thumbnail, board.scenes)
    /\ board.error # NoError

\* a download failed while the token was held
ZipFailedWithToken == tasks.last.kind = "zipFailed" /\ board.googleAccessToken

=============================================================================
